---------------------------- MODULE Spec2Model ----------------------------
(* Decision engine of CursorSupervisor (src/main.py): the polling loop,   *)
(* monitoring_cycle, the duplicate guard, the dispatch critical section   *)
(* and the stuck detection.  Texts are sequences of characters (one       *)
(* element per code point), so that strip, lower, substring search, the   *)
(* fingerprint normalisation and the positional similarity are computed   *)
(* as the Python code computes them.  A code point outside ASCII is the   *)
(* one-element string "U+XXXX".                                           *)
EXTENDS Integers, Sequences, FiniteSets, TLC

(* ---------------------------------------------------------------------- *)
(* Bounds of the model                                                    *)
(* ---------------------------------------------------------------------- *)
\* the wall clock (time.time()) when the supervisor is constructed
StartTime == 10
\* the clock stops advancing at MaxTime
MaxTime == 200
\* monitoring_cycle is called at most MaxCycles times
MaxCycles == 4
\* elapsed wall-clock time between two ticks is one of these steps
StepShort == 4
StepLong == 61
\* the screen shows at most MaxDistinct distinct valid texts during one run
MaxDistinct == 2
\* in a run of short sleeps the clock stops advancing at BackoffTime
BackoffTime == 70
\* in a run without end the clock's origin is moved so that the clock reads
\* at most FrameBase at the start of a tick
FrameBase == 125
MaxPrefix == 24
MaxMore == 3
MaxCalls == 3
NearFull == 2
MaxEntries == 2

(* ---------------------------------------------------------------------- *)
(* Python string primitives                                               *)
(* ---------------------------------------------------------------------- *)
UPPER == <<"A", "B", "C", "D", "E", "F", "G", "H", "I", "J", "K", "L", "M",
           "N", "O", "P", "Q", "R", "S", "T", "U", "V", "W", "X", "Y", "Z">>
LOWER == <<"a", "b", "c", "d", "e", "f", "g", "h", "i", "j", "k", "l", "m",
           "n", "o", "p", "q", "r", "s", "t", "u", "v", "w", "x", "y", "z">>

\* str.lower() on one character
LowerChar(c) ==
    IF \E i \in 1..26 : UPPER[i] = c
    THEN LOWER[CHOOSE i \in 1..26 : UPPER[i] = c]
    ELSE c

\* str.lower()
Lower(s) == [i \in 1..Len(s) |-> LowerChar(s[i])]

\* str.isspace() on one character
IsSpace(c) == c \in {" ", "\t", "\n", "\r"}

\* characters that the regular expression [^\w一-鿿] removes
\* besides whitespace: the punctuation that occurs in the texts
PUNCT == {".", ",", "!", "?", "(", ")", ":", ";", ">", "-",
          "U+FF0C", "U+3002", "U+FF01", "U+FF1F", "U+FF1A"}
IsWordChar(c) == ~IsSpace(c) /\ c \notin PUNCT

\* str.strip()
RECURSIVE LStrip(_)
LStrip(s) == IF s # <<>> /\ IsSpace(Head(s)) THEN LStrip(Tail(s)) ELSE s
RECURSIVE RStrip(_)
RStrip(s) ==
    IF s # <<>> /\ IsSpace(s[Len(s)]) THEN RStrip(SubSeq(s, 1, Len(s) - 1)) ELSE s
Strip(s) == RStrip(LStrip(s))

\* the Python expression  p in s
Contains(s, p) ==
    \E i \in 0..(Len(s) - Len(p)) : SubSeq(s, i + 1, i + Len(p)) = p

\* any(k in s for k in keys)
ContainsAny(s, keys) == \E k \in keys : Contains(s, k)

(* ---------------------------------------------------------------------- *)
(* Keyword tables of the source                                           *)
(* ---------------------------------------------------------------------- *)
\* "review changes"
REVIEW_CHANGES ==
    <<"r", "e", "v", "i", "e", "w", " ", "c", "h", "a", "n", "g", "e", "s">>
\* "generating"
GENERATING ==
    <<"g", "e", "n", "e", "r", "a", "t", "i", "n", "g">>
\* "..."
DOTS ==
    <<".", ".", ".">>
\* "。。。"
CJK_DOTS ==
    <<"U+3002", "U+3002", "U+3002">>
\* is_valid_content: invalid_patterns
invalid_patterns ==
    {
      <<"d", "a", "r", "k", "_", "c", "o", "n", "t", "e", "n", "t">>,   \* "dark_content"
      <<"d", "e", "t", "e", "c", "t", "e", "d", "_", "f", "e", "a", "t", "u", "r", "e", "s", ":">>,   \* "detected_features:"
      <<"h", "i", "g", "h", "_", "b", "r", "i", "g", "h", "t", "n", "e", "s", "s", "_", "c", "o", "n", "t", "e", "n", "t">>,   \* "high_brightness_content"
      <<"t", "e", "x", "t", "_", "l", "i", "k", "e", "_", "p", "a", "t", "t", "e", "r", "n", "s">>,   \* "text_like_patterns"
      <<"s", "t", "a", "b", "l", "e", "_", "c", "o", "n", "t", "e", "n", "t">>,   \* "stable_content"
      <<"u", "n", "k", "n", "o", "w", "n", "_", "c", "o", "n", "t", "e", "n", "t">>   \* "unknown_content"
    }
\* self.processing_keywords, each lowered as in is_cursor_processing_error
processing_keywords ==
    {
      <<"U+6B63", "U+5728", "U+5904", "U+7406">>,   \* "正在处理"
      <<"U+4FEE", "U+590D", "U+4E2D">>,   \* "修复中"
      <<"U+5206", "U+6790", "U+4E2D">>,   \* "分析中"
      <<"U+751F", "U+6210", "U+4E2D">>,   \* "生成中"
      <<"U+5904", "U+7406", "U+9519", "U+8BEF">>,   \* "处理错误"
      <<"w", "o", "r", "k", "i", "n", "g", " ", "o", "n">>,   \* "working on"
      <<"f", "i", "x", "i", "n", "g">>,   \* "fixing"
      <<"a", "n", "a", "l", "y", "z", "i", "n", "g">>,   \* "analyzing"
      <<"g", "e", "n", "e", "r", "a", "t", "i", "n", "g">>,   \* "generating"
      <<"p", "r", "o", "c", "e", "s", "s", "i", "n", "g">>   \* "processing"
    }
\* is_cursor_processing_error: processing_indicators
processing_indicators ==
    {
      <<"U+751F", "U+6210">>,   \* "生成"
      <<"U+5904", "U+7406">>,   \* "处理"
      <<"U+5206", "U+6790">>,   \* "分析"
      <<"U+521B", "U+5EFA">>,   \* "创建"
      <<"U+6B63", "U+5728">>,   \* "正在"
      <<"g", "e", "n", "e", "r", "a", "t", "i", "n", "g">>,   \* "generating"
      <<"p", "r", "o", "c", "e", "s", "s", "i", "n", "g">>,   \* "processing"
      <<"c", "r", "e", "a", "t", "i", "n", "g">>   \* "creating"
    }
\* has_review_changes_signal: self.review_keywords + extension, each lowered
review_keywords_extended ==
    {
      <<"r", "e", "v", "i", "e", "w", " ", "c", "h", "a", "n", "g", "e", "s">>,   \* "review changes"
      <<"U+5BA1", "U+67E5", "U+53D8", "U+66F4">>,   \* "审查变更"
      <<"U+68C0", "U+67E5", "U+4FEE", "U+6539">>,   \* "检查修改"
      <<"U+67E5", "U+770B", "U+53D8", "U+66F4">>,   \* "查看变更"
      <<"r", "e", "v", "i", "e", "w", " ", "t", "h", "e", " ", "c", "h", "a", "n", "g", "e", "s">>,   \* "review the changes"
      <<"U+8BF7", "U+5BA1", "U+67E5">>,   \* "请审查"
      <<"U+5BA1", "U+67E5", "U+4FEE", "U+6539">>,   \* "审查修改"
      <<"U+67E5", "U+770B", "U+66F4", "U+6539">>,   \* "查看更改"
      <<"U+68C0", "U+67E5", "U+53D8", "U+66F4">>,   \* "检查变更"
      <<"r", "e", "v", "i", "e", "w", " ", "c", "o", "d", "e">>,   \* "review code"
      <<"U+4EE3", "U+7801", "U+5BA1", "U+67E5">>   \* "代码审查"
    }
\* is_cursor_response_finished: completion_signals
completion_signals ==
    {
      <<"U+5B8C", "U+6210">>,   \* "完成"
      <<"d", "o", "n", "e">>,   \* "done"
      <<"f", "i", "n", "i", "s", "h", "e", "d">>,   \* "finished"
      <<"r", "e", "a", "d", "y">>,   \* "ready"
      <<"U+5B9E", "U+73B0", "U+5B8C", "U+6BD5">>,   \* "实现完毕"
      <<"U+8FD0", "U+884C", "U+5B8C", "U+6210">>,   \* "运行完成"
      <<"U+6267", "U+884C", "U+5B8C", "U+6BD5">>,   \* "执行完毕"
      <<"U+6D4B", "U+8BD5", "U+901A", "U+8FC7">>,   \* "测试通过"
      <<"U+90E8", "U+7F72", "U+6210", "U+529F">>,   \* "部署成功"
      <<"U+4EFB", "U+52A1", "U+5B8C", "U+6210">>,   \* "任务完成"
      <<"U+5904", "U+7406", "U+5B8C", "U+6210">>   \* "处理完成"
    }
\* is_cursor_response_finished: question_patterns
question_patterns ==
    {
      <<"U+4F60", "U+5E0C", "U+671B">>,   \* "你希望"
      <<"U+9700", "U+8981", "U+6211">>,   \* "需要我"
      <<"U+662F", "U+5426", "U+9700", "U+8981">>,   \* "是否需要"
      <<"U+8FD8", "U+6709", "U+4EC0", "U+4E48">>,   \* "还有什么"
      <<"U+63A5", "U+4E0B", "U+6765">>,   \* "接下来"
      <<"U+4E0B", "U+4E00", "U+6B65">>,   \* "下一步"
      <<"U+4F60", "U+60F3", "U+8981">>,   \* "你想要"
      <<"U+8981", "U+4E0D", "U+8981">>,   \* "要不要"
      <<"U+53EF", "U+4EE5", "U+7EE7", "U+7EED">>,   \* "可以继续"
      <<"U+8BF7", "U+544A", "U+8BC9", "U+6211">>   \* "请告诉我"
    }
\* is_duplicate_processing: pm_reply_indicators
pm_reply_indicators ==
    {
      <<"U+6536", "U+5230">>,   \* "收到"
      <<"U+660E", "U+767D", "U+4E86">>,   \* "明白了"
      <<"U+597D", "U+7684", "U+FF0C", "U+6211", "U+6765">>,   \* "好的，我来"
      <<"U+4E86", "U+89E3", "U+FF0C", "U+63A5", "U+4E0B", "U+6765">>,   \* "了解，接下来"
      <<"U+6536", "U+5230", "U+6307", "U+4EE4">>,   \* "收到指令"
      <<"U+6211", "U+4F1A">>   \* "我会"
    }
\* is_duplicate_processing: technical words that rule out a product-manager reply
tech_words ==
    {
      <<"p", "y", "g", "a", "m", "e">>,   \* "pygame"
      <<"p", "y", "t", "h", "o", "n">>,   \* "python"
      <<"i", "m", "p", "o", "r", "t">>,   \* "import"
      <<"c", "l", "a", "s", "s">>,   \* "class"
      <<"d", "e", "f">>,   \* "def"
      <<"f", "u", "n", "c", "t", "i", "o", "n">>,   \* "function"
      <<"U+4EE3", "U+7801">>,   \* "代码"
      <<"U+6587", "U+4EF6">>,   \* "文件"
      <<"U+5B9E", "U+73B0">>,   \* "实现"
      <<"U+5F00", "U+53D1">>,   \* "开发"
      <<"U+521B", "U+5EFA">>,   \* "创建"
      <<"U+4FEE", "U+6539">>,   \* "修改"
      <<"S", "n", "a", "k", "e">>,   \* "Snake"
      <<"g", "a", "m", "e">>   \* "game"
    }
\* manage_conversation_turns: user_indicators
user_indicators ==
    {
      <<"U+8BF7">>,   \* "请"
      <<"U+5E2E", "U+6211">>,   \* "帮我"
      <<"U+5B9E", "U+73B0">>,   \* "实现"
      <<"U+4FEE", "U+590D">>,   \* "修复"
      <<"U+4F18", "U+5316">>,   \* "优化"
      <<"U+6DFB", "U+52A0">>,   \* "添加"
      <<"U+521B", "U+5EFA">>,   \* "创建"
      <<"p", "l", "e", "a", "s", "e">>,   \* "please"
      <<"h", "e", "l", "p">>,   \* "help"
      <<"i", "m", "p", "l", "e", "m", "e", "n", "t">>,   \* "implement"
      <<"f", "i", "x">>,   \* "fix"
      <<"o", "p", "t", "i", "m", "i", "z", "e">>,   \* "optimize"
      <<"a", "d", "d">>,   \* "add"
      <<"c", "r", "e", "a", "t", "e">>   \* "create"
    }
\* manage_conversation_turns: completion_indicators
completion_indicators ==
    {
      <<"U+5B8C", "U+6210">>,   \* "完成"
      <<"U+7ED3", "U+675F">>,   \* "结束"
      <<"d", "o", "n", "e">>,   \* "done"
      <<"f", "i", "n", "i", "s", "h", "e", "d">>,   \* "finished"
      <<"c", "o", "m", "p", "l", "e", "t", "e", "d">>,   \* "completed"
      <<"r", "e", "a", "d", "y">>,   \* "ready"
      <<"U+5B9E", "U+73B0", "U+5B8C", "U+6BD5">>   \* "实现完毕"
    }

(* ---------------------------------------------------------------------- *)
(* The texts the screen source delivers in this model                     *)
(* ---------------------------------------------------------------------- *)
\* "" : the extraction returned no text
S_EMPTY ==
    <<>>
\* "   done   "
S_BLANK ==
    <<" ", " ", " ", "d", "o", "n", "e", " ", " ", " ">>
\* "dark_content detected"
S_DARK ==
    <<"d", "a", "r", "k", "_", "c", "o", "n", "t", "e", "n", "t", " ", "d", "e", "t", "e", "c",
      "t", "e", "d">>
\* "Let me think about this"
S_THINK ==
    <<"L", "e", "t", " ", "m", "e", " ", "t", "h", "i", "n", "k", " ", "a", "b", "o", "u", "t",
      " ", "t", "h", "i", "s">>
\* "Review Changes"
S_REVIEW ==
    <<"R", "e", "v", "i", "e", "w", " ", "C", "h", "a", "n", "g", "e", "s">>
\* "Generating response..."
S_GEN ==
    <<"G", "e", "n", "e", "r", "a", "t", "i", "n", "g", " ", "r", "e", "s", "p", "o", "n", "s",
      "e", ".", ".", ".">>
\* "Generating... Review Changes"
S_REVGEN ==
    <<"G", "e", "n", "e", "r", "a", "t", "i", "n", "g", ".", ".", ".", " ", "R", "e", "v", "i",
      "e", "w", " ", "C", "h", "a", "n", "g", "e", "s">>
\* "Generating code, task 1 done"
S_DONEGEN ==
    <<"G", "e", "n", "e", "r", "a", "t", "i", "n", "g", " ", "c", "o", "d", "e", ",", " ", "t",
      "a", "s", "k", " ", "1", " ", "d", "o", "n", "e">>
\* "All tasks are done"
S_DONE ==
    <<"A", "l", "l", " ", "t", "a", "s", "k", "s", " ", "a", "r", "e", " ", "d", "o", "n", "e">>
\* "Please continue with the next feature Review Changes"
S_ECHO ==
    <<"P", "l", "e", "a", "s", "e", " ", "c", "o", "n", "t", "i", "n", "u", "e", " ", "w", "i",
      "t", "h", " ", "t", "h", "e", " ", "n", "e", "x", "t", " ", "f", "e", "a", "t", "u", "r",
      "e", " ", "R", "e", "v", "i", "e", "w", " ", "C", "h", "a", "n", "g", "e", "s">>
\* "Generating response...."
S_GENMORE ==
    <<"G", "e", "n", "e", "r", "a", "t", "i", "n", "g", " ", "r", "e", "s", "p", "o", "n", "s",
      "e", ".", ".", ".", ".">>
\* "Review Changes."
S_REVIEWDOT ==
    <<"R", "e", "v", "i", "e", "w", " ", "C", "h", "a", "n", "g", "e", "s", ".">>

\* "REVIEW  changes": the text "Review Changes" in other letter case and
\* with other spacing
S_REVIEWCASE ==
    <<"R", "E", "V", "I", "E", "W", " ", " ", "c", "h", "a", "n", "g", "e", "s">>

\* the snapshot texts a tick can receive
Snapshots ==
    {S_EMPTY, S_BLANK, S_DARK, S_THINK, S_REVIEW, S_GEN, S_REVGEN, S_DONEGEN,
     S_DONE, S_ECHO, S_GENMORE, S_REVIEWDOT}

\* the texts the functions of a text are tabulated for
Texts == Snapshots \cup {S_REVIEWCASE}

(* ---------------------------------------------------------------------- *)
(* Intervention types and instruction texts                               *)
(* ---------------------------------------------------------------------- *)
\* "review_changes_completed"
T_REVIEW ==
    <<"r", "e", "v", "i", "e", "w", "_", "c", "h", "a", "n", "g", "e", "s", "_", "c", "o", "m",
      "p", "l", "e", "t", "e", "d">>
\* "content_timeout_analysis"
T_STUCK ==
    <<"c", "o", "n", "t", "e", "n", "t", "_", "t", "i", "m", "e", "o", "u", "t", "_", "a", "n",
      "a", "l", "y", "s", "i", "s">>
\* "response_completed"
T_FINISHED ==
    <<"r", "e", "s", "p", "o", "n", "s", "e", "_", "c", "o", "m", "p", "l", "e", "t", "e", "d">>
\* "timeout_intervention"
T_TIMEOUT ==
    <<"t", "i", "m", "e", "o", "u", "t", "_", "i", "n", "t", "e", "r", "v", "e", "n", "t", "i",
      "o", "n">>
\* "force_progress"
T_FORCE ==
    <<"f", "o", "r", "c", "e", "_", "p", "r", "o", "g", "r", "e", "s", "s">>
\* "review_changes": the type for which the generator has its own fallback
REVIEW_TYPE ==
    <<"r", "e", "v", "i", "e", "w", "_", "c", "h", "a", "n", "g", "e", "s">>
\* "Please continue with the next feature"
G_LONG ==
    <<"P", "l", "e", "a", "s", "e", " ", "c", "o", "n", "t", "i", "n", "u", "e", " ", "w", "i",
      "t", "h", " ", "t", "h", "e", " ", "n", "e", "x", "t", " ", "f", "e", "a", "t", "u", "r",
      "e">>
\* "ok"
G_SHORT ==
    <<"o", "k">>
\* "任务完成了！请继续下一个开发步骤。"
GEN_FALLBACK_REVIEW ==
    <<"U+4EFB", "U+52A1", "U+5B8C", "U+6210", "U+4E86", "U+FF01", "U+8BF7", "U+7EE7", "U+7EED",
      "U+4E0B", "U+4E00", "U+4E2A", "U+5F00", "U+53D1", "U+6B65", "U+9AA4", "U+3002">>
\* "请继续当前开发任务，有问题的话提供具体错误信息。"
GEN_FALLBACK ==
    <<"U+8BF7", "U+7EE7", "U+7EED", "U+5F53", "U+524D", "U+5F00", "U+53D1", "U+4EFB", "U+52A1",
      "U+FF0C", "U+6709", "U+95EE", "U+9898", "U+7684", "U+8BDD", "U+63D0", "U+4F9B", "U+5177",
      "U+4F53", "U+9519", "U+8BEF", "U+4FE1", "U+606F", "U+3002">>
\* "根据当前状态，建议继续推进开发。请告诉我你需要什么帮助？("
EMPTY_FALLBACK_PREFIX ==
    <<"U+6839", "U+636E", "U+5F53", "U+524D", "U+72B6", "U+6001", "U+FF0C", "U+5EFA", "U+8BAE",
      "U+7EE7", "U+7EED", "U+63A8", "U+8FDB", "U+5F00", "U+53D1", "U+3002", "U+8BF7", "U+544A",
      "U+8BC9", "U+6211", "U+4F60", "U+9700", "U+8981", "U+4EC0", "U+4E48", "U+5E2E", "U+52A9",
      "U+FF1F", "(">>
\* "我注意到你的回复，让我们继续推进开发。请告诉我当前的具体情况和需要什么帮助。"
EXCEPT_FALLBACK ==
    <<"U+6211", "U+6CE8", "U+610F", "U+5230", "U+4F60", "U+7684", "U+56DE", "U+590D", "U+FF0C",
      "U+8BA9", "U+6211", "U+4EEC", "U+7EE7", "U+7EED", "U+63A8", "U+8FDB", "U+5F00", "U+53D1",
      "U+3002", "U+8BF7", "U+544A", "U+8BC9", "U+6211", "U+5F53", "U+524D", "U+7684", "U+5177",
      "U+4F53", "U+60C5", "U+51B5", "U+548C", "U+9700", "U+8981", "U+4EC0", "U+4E48", "U+5E2E",
      "U+52A9", "U+3002">>

(* ---------------------------------------------------------------------- *)
(* Configuration set in CursorSupervisor.__init__ and literals            *)
(* ---------------------------------------------------------------------- *)
stuck_detection_time == 50
instruction_cooldown == 8
max_processed_hashes == 50
max_same_content_processing == 3
max_stuck_time == 120
\* is_content_stuck: threshold while the text says "generating"
generating_threshold == 60
\* monitoring_cycle: same content for more than 60 s forces an intervention
same_content_timeout == 60
\* is_duplicate_processing: the counter is trimmed to 50 above 100 entries
repetition_limit == 100
repetition_keep == 50
\* update_dialog_history: the history is trimmed to 15 above 20 entries
history_limit == 20
history_keep == 15
\* manage_conversation_turns: the turns are trimmed to 7 above 10
turns_limit == 10
turns_keep == 7
\* handle_repeated_content: pause after 5 repeats, reset after 600 s
repeat_pause_threshold == 5
pause_duration == 30
repeat_reset_time == 600
\* is_valid_content: minimum length after strip()
min_valid_length == 10
\* handle_gpt_content_analysis_intervention: minimum instruction length
min_instruction_length == 10
\* is_duplicate_processing: an instruction echo needs more than 20 characters
echo_min_length == 20
\* is_duplicate_processing: a product-manager reply is shorter than 50
pm_reply_max_length == 50
\* is_cursor_processing_error: growth of more than 50 characters
growth_margin == 50
\* is_substantially_same_content: containment needs more than 50 characters
containment_min_length == 50

(* ---------------------------------------------------------------------- *)
(* Pure functions of CursorSupervisor                                     *)
(* ---------------------------------------------------------------------- *)
Min(a, b) == IF a < b THEN a ELSE b
Max(a, b) == IF a > b THEN a ELSE b

\* is_valid_content measuring the text before it is stripped
is_valid_content_unstripped(text) ==
    IF text = <<>> \/ Len(text) < min_valid_length
    THEN FALSE
    ELSE ~ContainsAny(Lower(text), invalid_patterns)

\* is_valid_content: at least 10 characters once stripped, no OCR failure pattern
is_valid_content(text) ==
    IF text = <<>> \/ Len(Strip(text)) < min_valid_length
    THEN FALSE
    ELSE ~ContainsAny(Lower(text), invalid_patterns)

\* ''.join(text.split()).lower(); the md5 digest of the normalised text is
\* represented by the normalised text itself (md5 taken as injective)
NotSpace(c) == ~IsSpace(c)
\* calculate_content_hash without the lower-casing
calculate_content_hash_keeping_case(text) == SelectSeq(text, NotSpace)

calculate_content_hash(text) == Lower(SelectSeq(text, NotSpace))

\* the quotient common_chars / max_len as the pair <<common_chars, max_len>>
calculate_content_similarity(text1, text2) ==
    IF text1 = <<>> \/ text2 = <<>>
    THEN <<0, 1>>
    ELSE <<Cardinality({i \in 1..Min(Len(text1), Len(text2)) : text1[i] = text2[i]}),
           Max(Len(text1), Len(text2))>>

\* similarity > num / den
SimilarityAbove(similarity, num, den) == similarity[1] * den > num * similarity[2]

\* re.sub(r'[^\w一-鿿]', '', text.lower())
normalize_text(text) == SelectSeq(Lower(text), IsWordChar)

is_substantially_same_content(current_text, last_content) ==
    IF current_text = <<>> \/ last_content = <<>>
    THEN FALSE
    ELSE LET normalized_current == normalize_text(current_text)
             normalized_last == normalize_text(last_content)
         IN  \/ normalized_current = normalized_last
             \/ SimilarityAbove(calculate_content_similarity(normalized_current,
                                                             normalized_last), 9, 10)
             \/ /\ Min(Len(normalized_current), Len(normalized_last)) > containment_min_length
                /\ \/ Contains(normalized_last, normalized_current)
                   \/ Contains(normalized_current, normalized_last)

has_review_changes_signal(text) ==
    /\ text # <<>>
    /\ \/ Contains(Lower(text), REVIEW_CHANGES)
       \/ ContainsAny(Lower(text), review_keywords_extended)

is_cursor_processing_error(text, last_content) ==
    /\ text # <<>>
    /\ \/ Contains(Lower(text), GENERATING)
       \/ ContainsAny(Lower(text), processing_keywords)
       \/ Contains(text, DOTS)
       \/ Contains(text, CJK_DOTS)
       \/ /\ Len(text) > Len(last_content) + growth_margin
          /\ ContainsAny(Lower(text), processing_indicators)

is_cursor_response_finished(text) ==
    /\ text # <<>>
    /\ \/ Contains(Lower(text), REVIEW_CHANGES)
       \/ ContainsAny(Lower(text), completion_signals)
       \/ ContainsAny(Lower(text), question_patterns)

\* is_content_stuck: the threshold that applies to a text
stuck_threshold(text) ==
    IF Contains(Lower(text), GENERATING) THEN generating_threshold ELSE stuck_detection_time

\* is_duplicate_processing step 7: a short confirmation without technical words
is_pm_reply(text) ==
    /\ Len(text) < pm_reply_max_length
    /\ ContainsAny(text, pm_reply_indicators)
    /\ ~ContainsAny(text, tech_words)

\* is_duplicate_processing step 6: the text echoes the instruction last sent
is_instruction_echo(text, instruction) ==
    /\ Len(instruction) > echo_min_length
    /\ Contains(text, instruction)

\* manage_conversation_turns: is_user_input and is_cursor_completion
is_user_input(text) == ContainsAny(Lower(text), user_indicators)
is_cursor_completion(text) == ContainsAny(Lower(text), completion_indicators)

\* checked_instruction when the generator's text is used as it is
checked_instruction_as_is(instruction, type) == instruction

\* lines 659-661: an empty or short instruction is replaced
checked_instruction(instruction, type) ==
    IF instruction = <<>> \/ Len(Strip(instruction)) < min_instruction_length
    THEN EMPTY_FALLBACK_PREFIX \o type \o <<")">>
    ELSE instruction

(* ---------------------------------------------------------------------- *)
(* The functions above, tabulated over the texts of the model             *)
(* ---------------------------------------------------------------------- *)
InterventionTypes == {T_REVIEW, T_STUCK, T_FINISHED, T_TIMEOUT, T_FORCE}

\* the values last_instruction_sent can take
SentInstructions ==
    {<<>>, G_LONG, GEN_FALLBACK, GEN_FALLBACK_REVIEW}
        \cup {checked_instruction(<<>>, type) : type \in InterventionTypes}

valid_of == [text \in Texts |-> is_valid_content(text)]
\* is_valid_content: len(text.strip()) and the test for an OCR failure pattern
stripped_length_of == [text \in Texts |-> Len(Strip(text))]
ocr_failure_of == [text \in Texts |-> ContainsAny(Lower(text), invalid_patterns)]
hash_of == [text \in Texts |-> calculate_content_hash(text)]
\* calculate_content_hash line 1418: ''.join(text.split()).lower(), the text
\* that is hashed
normalized_text_of ==
    [text \in Texts |->
        LET joined == SelectSeq(text, LAMBDA c : c \notin {" ", "\t", "\n", "\r"})
        IN  [i \in 1..Len(joined) |-> LowerChar(joined[i])]]
review_of == [text \in Texts |-> has_review_changes_signal(text)]
finished_of == [text \in Texts |-> is_cursor_response_finished(text)]
threshold_of == [text \in Texts |-> stuck_threshold(text)]
pm_reply_of == [text \in Texts |-> is_pm_reply(text)]
user_input_of == [text \in Texts |-> is_user_input(text)]
completion_of == [text \in Texts |-> is_cursor_completion(text)]
generating_of ==
    [text \in Texts, last \in Texts |-> is_cursor_processing_error(text, last)]
same_of ==
    [text \in Texts, last \in Texts |-> is_substantially_same_content(text, last)]
similar_of ==
    [text \in Texts, last \in Texts |->
        SimilarityAbove(calculate_content_similarity(text, last), 99, 100)]
echo_of ==
    [text \in Texts, instruction \in SentInstructions |->
        is_instruction_echo(text, instruction)]

\* is_content_stuck: the value returned, at clock reading t
is_content_stuck(current_text, last_content, change_time, t) ==
    /\ valid_of[current_text]
    /\ current_text = last_content
    /\ t - change_time > threshold_of[current_text]

\* is_content_stuck: last_content_change_time after the call
is_content_stuck_change_time(current_text, last_content, change_time, t) ==
    IF valid_of[current_text] /\ current_text # last_content
    THEN t
    ELSE change_time

(* ---------------------------------------------------------------------- *)
(* State of CursorSupervisor                                              *)
(* ---------------------------------------------------------------------- *)
VARIABLES
    project_planner,            \* self.project_planner: None, or the planner's progress
    screen,                     \* the valid texts the screen shows during this run
    now,                        \* the wall clock, time.time()
    pc,                         \* position of the polling loop
    should_stop,
    is_running,
    is_processing_message,
    last_instruction_time,
    processed_message_hashes,
    last_processed_content_hash,
    content_repetition_count,   \* the dict in insertion order: <<[text, count], ...>>
    last_instruction_sent,
    last_dialog_content,
    dialog_history,
    conversation_turns,
    current_turn,
    cursor_is_processing,
    last_content_change_time,
    last_progress_time,
    repeated_content_count,
    last_repeated_content_time,
    extracted_text,             \* dispatch frame: the snapshot text
    intervention_type,          \* dispatch frame: the intervention type
    pm_instruction,             \* dispatch frame: the instruction to send
    tick,                       \* what the tick in progress or last finished did:
                                \* text, outcome, guard check, type, executor calls
                                \* returned, the last one's result, the stuck signal
    fired,                      \* per text, interventions since suppression state was cleared
    cycles                      \* calls of monitoring_cycle so far

\* the attributes of the supervisor that monitoring_cycle and the dispatch write
sup == <<is_processing_message, last_instruction_time, processed_message_hashes,
         last_processed_content_hash, content_repetition_count, last_instruction_sent,
         last_dialog_content, dialog_history, conversation_turns, current_turn,
         cursor_is_processing, last_content_change_time, last_progress_time,
         repeated_content_count, last_repeated_content_time>>

frame == <<extracted_text, intervention_type, pm_instruction>>

vars == <<project_planner, screen, now, pc, should_stop, is_running, sup, frame, tick, fired, cycles>>

\* Python None for a hash, a turn, a time
None == <<"None">>
NoTurn == [status |-> "none"]
NoPlanner == [status |-> "none"]
NoTask == -1
NoTime == -1000

\* the supervisor's attributes as one record, threaded through the
\* statements of monitoring_cycle
Self ==
    [is_processing_message |-> is_processing_message,
     last_instruction_time |-> last_instruction_time,
     processed_message_hashes |-> processed_message_hashes,
     last_processed_content_hash |-> last_processed_content_hash,
     content_repetition_count |-> content_repetition_count,
     last_instruction_sent |-> last_instruction_sent,
     last_dialog_content |-> last_dialog_content,
     dialog_history |-> dialog_history,
     conversation_turns |-> conversation_turns,
     current_turn |-> current_turn,
     cursor_is_processing |-> cursor_is_processing,
     last_content_change_time |-> last_content_change_time,
     last_progress_time |-> last_progress_time,
     repeated_content_count |-> repeated_content_count,
     last_repeated_content_time |-> last_repeated_content_time]

\* the supervisor's attributes become those of the record s
Becomes(s) ==
    /\ is_processing_message' = s.is_processing_message
    /\ last_instruction_time' = s.last_instruction_time
    /\ processed_message_hashes' = s.processed_message_hashes
    /\ last_processed_content_hash' = s.last_processed_content_hash
    /\ content_repetition_count' = s.content_repetition_count
    /\ last_instruction_sent' = s.last_instruction_sent
    /\ last_dialog_content' = s.last_dialog_content
    /\ dialog_history' = s.dialog_history
    /\ conversation_turns' = s.conversation_turns
    /\ current_turn' = s.current_turn
    /\ cursor_is_processing' = s.cursor_is_processing
    /\ last_content_change_time' = s.last_content_change_time
    /\ last_progress_time' = s.last_progress_time
    /\ repeated_content_count' = s.repeated_content_count
    /\ last_repeated_content_time' = s.last_repeated_content_time

\* the sets of valid texts one run can show
Screens ==
    {shown \in SUBSET {text \in Snapshots : valid_of[text]} :
        Cardinality(shown) = MaxDistinct}

\* the record of the tick before any tick
NoTick ==
    [text |-> <<>>, outcome |-> "none", check |-> 0, type |-> <<>>, sent |-> 0,
     ok |-> FALSE, stuck |-> FALSE, generated |-> <<>>]

\* CursorSupervisor.__init__ at clock reading StartTime
Init ==
    /\ project_planner = NoPlanner
    /\ screen \in Screens
    /\ now = StartTime
    /\ pc = "loop"
    /\ should_stop = FALSE
    /\ is_running = TRUE
    /\ is_processing_message = FALSE
    /\ last_instruction_time = 0
    /\ processed_message_hashes = {}
    /\ last_processed_content_hash = None
    /\ content_repetition_count = <<>>
    /\ last_instruction_sent = <<>>
    /\ last_dialog_content = <<>>
    /\ dialog_history = <<>>
    /\ conversation_turns = <<>>
    /\ current_turn = NoTurn
    /\ cursor_is_processing = FALSE
    /\ last_content_change_time = StartTime
    /\ last_progress_time = StartTime
    /\ repeated_content_count = 0
    /\ last_repeated_content_time = NoTime
    /\ extracted_text = <<>>
    /\ intervention_type = <<>>
    /\ pm_instruction = <<>>
    /\ tick = NoTick
    /\ fired = [t \in Snapshots |-> 0]
    /\ cycles = 0

(* ---------------------------------------------------------------------- *)
(* The duplicate guard: is_duplicate_processing, mark_content_as_processed *)
(* ---------------------------------------------------------------------- *)
\* content_repetition_count: the positions holding the key text
RepIndex(rep, text) == {i \in 1..Len(rep) : rep[i].text = text}

\* content_repetition_count.get(text, 0)
RepCount(rep, text) ==
    IF RepIndex(rep, text) = {} THEN 0
    ELSE rep[CHOOSE i \in RepIndex(rep, text) : TRUE].count

\* is_duplicate_processing step 5: count the text, a new key goes last
RepIncrement(rep, text) ==
    IF RepIndex(rep, text) = {}
    THEN Append(rep, [text |-> text, count |-> 1])
    ELSE [i \in 1..Len(rep) |->
            IF rep[i].text = text THEN [rep[i] EXCEPT !.count = @ + 1] ELSE rep[i]]

\* is_duplicate_processing step 9: keep the 50 most recently inserted keys
RepTrim(rep) ==
    IF Len(rep) > repetition_limit
    THEN SubSeq(rep, Len(rep) - repetition_keep + 1, Len(rep))
    ELSE rep

\* DuplicateCheck without the check for an echo of the instruction last sent
DuplicateCheck_no_echo(s, text, t) ==
    IF s.is_processing_message THEN 1
    ELSE IF t - s.last_instruction_time < instruction_cooldown THEN 2
    ELSE IF hash_of[text] \in s.processed_message_hashes THEN 4
    ELSE IF RepCount(RepIncrement(s.content_repetition_count, text), text)
              > max_same_content_processing THEN 5
    ELSE IF pm_reply_of[text] THEN 7
    ELSE IF /\ s.last_processed_content_hash # None
            /\ similar_of[text, s.last_dialog_content] THEN 8
    ELSE 0

\* DuplicateCheck without the cooldown check
DuplicateCheck_no_cooldown(s, text, t) ==
    IF s.is_processing_message THEN 1
    ELSE IF hash_of[text] \in s.processed_message_hashes THEN 4
    ELSE IF RepCount(RepIncrement(s.content_repetition_count, text), text)
              > max_same_content_processing THEN 5
    ELSE IF echo_of[text, s.last_instruction_sent] THEN 6
    ELSE IF pm_reply_of[text] THEN 7
    ELSE IF /\ s.last_processed_content_hash # None
            /\ similar_of[text, s.last_dialog_content] THEN 8
    ELSE 0

\* DuplicateCheck when the content checks are skipped: the fingerprint
\* cannot be computed and the except clause answers False
DuplicateCheck_no_content_checks(s, text, t) ==
    IF s.is_processing_message THEN 1
    ELSE IF t - s.last_instruction_time < instruction_cooldown THEN 2
    ELSE 0

\* is_duplicate_processing: the number of the first check that answers True
\* (numbered as in the source), 0 when the content passes
DuplicateCheck(s, text, t) ==
    IF s.is_processing_message THEN 1
    ELSE IF t - s.last_instruction_time < instruction_cooldown THEN 2
    ELSE IF hash_of[text] \in s.processed_message_hashes THEN 4
    ELSE IF RepCount(RepIncrement(s.content_repetition_count, text), text)
              > max_same_content_processing THEN 5
    ELSE IF echo_of[text, s.last_instruction_sent] THEN 6
    ELSE IF pm_reply_of[text] THEN 7
    ELSE IF /\ s.last_processed_content_hash # None
            /\ similar_of[text, s.last_dialog_content] THEN 8
    ELSE 0

\* is_duplicate_processing: the value returned
is_duplicate_processing(s, text, t) == DuplicateCheck(s, text, t) # 0

\* AfterDuplicateCheck when the text is counted before the first check
AfterDuplicateCheck_counting_first(s, text, t) ==
    LET check == DuplicateCheck(s, text, t)
        counted == RepIncrement(s.content_repetition_count, text)
    IN  IF check = 0 THEN [s EXCEPT !.content_repetition_count = RepTrim(counted)]
        ELSE [s EXCEPT !.content_repetition_count = counted]

\* is_duplicate_processing: the supervisor after the call
AfterDuplicateCheck(s, text, t) ==
    LET check == DuplicateCheck(s, text, t)
        counted == RepIncrement(s.content_repetition_count, text)
    IN  IF check \in {1, 2, 4} THEN s
        ELSE IF check = 0 THEN [s EXCEPT !.content_repetition_count = RepTrim(counted)]
        ELSE [s EXCEPT !.content_repetition_count = counted]

\* the hashes of the texts the screen delivers
SnapshotHashes == {hash_of[text] : text \in Texts}

\* the k shortest of the hashes of texts met earlier
FirstHashes(others, k) ==
    {hash \in others : Cardinality({shorter \in others : Len(shorter) < Len(hash)}) < k}

\* MarkedHashes when the set is never cut
MarkedHashes_untrimmed(hashes, text) == {hashes \cup {hash_of[text]}}

\* mark_content_as_processed: the sets processed_message_hashes can become;
\* list(set)[-25:] keeps 25 elements in the set's iteration order, which the
\* program does not control: any of the hashes of the screen's texts can be
\* among the 25 kept; the hashes of texts met earlier stand for one
\* another, and those of them that are kept are written as the shortest
MarkedHashes(hashes, text) ==
    LET added == hashes \cup {hash_of[text]}
        half == max_processed_hashes \div 2
        named == added \cap SnapshotHashes
        others == added \ named
    IN  IF Cardinality(added) > max_processed_hashes
        THEN {kept \cup FirstHashes(others, half - Cardinality(kept)) :
                 kept \in {some \in SUBSET named :
                              /\ Cardinality(some) <= half
                              /\ half - Cardinality(some) <= Cardinality(others)}}
        ELSE {added}

\* mark_content_as_processed when the hash is remembered as the last one
\* processed but not put into the set
mark_content_as_processed_last_only(s, text, kept) ==
    [s EXCEPT !.last_processed_content_hash = hash_of[text]]

\* mark_content_as_processed, the trimmed set being kept
mark_content_as_processed(s, text, kept) ==
    [s EXCEPT !.processed_message_hashes = kept,
              !.last_processed_content_hash = hash_of[text]]

(* ---------------------------------------------------------------------- *)
(* Dialog history and conversation turns                                  *)
(* ---------------------------------------------------------------------- *)
\* manage_conversation_turns
\* manage_conversation_turns when a completed turn still takes responses
manage_conversation_turns_after_completion(s, current_text, timestamp) ==
    LET response == [timestamp |-> timestamp, content |-> current_text]
        s1 == IF user_input_of[current_text] /\ ~s.cursor_is_processing
              THEN [s EXCEPT
                      !.conversation_turns =
                          IF s.current_turn # NoTurn THEN Append(@, s.current_turn) ELSE @,
                      !.current_turn =
                          [start_time |-> timestamp, user_request |-> current_text,
                           cursor_responses |-> <<>>, status |-> "active"]]
              ELSE IF s.current_turn # NoTurn
              THEN [s EXCEPT
                      !.current_turn =
                          IF completion_of[current_text]
                          THEN [start_time |-> @.start_time, user_request |-> @.user_request,
                                cursor_responses |-> Append(@.cursor_responses, response),
                                status |-> "completed", end_time |-> timestamp]
                          ELSE [@ EXCEPT !.cursor_responses = Append(@, response)]]
              ELSE s
    IN  IF Len(s1.conversation_turns) > turns_limit
        THEN [s1 EXCEPT !.conversation_turns = SubSeq(@, Len(@) - turns_keep + 1, Len(@))]
        ELSE s1

manage_conversation_turns(s, current_text, timestamp) ==
    LET response == [timestamp |-> timestamp, content |-> current_text]
        s1 == IF user_input_of[current_text] /\ ~s.cursor_is_processing
              THEN [s EXCEPT
                      !.conversation_turns =
                          IF s.current_turn # NoTurn THEN Append(@, s.current_turn) ELSE @,
                      !.current_turn =
                          [start_time |-> timestamp, user_request |-> current_text,
                           cursor_responses |-> <<>>, status |-> "active"]]
              ELSE IF s.current_turn # NoTurn /\ s.current_turn.status = "active"
              THEN [s EXCEPT
                      !.current_turn =
                          IF completion_of[current_text]
                          THEN [start_time |-> @.start_time, user_request |-> @.user_request,
                                cursor_responses |-> Append(@.cursor_responses, response),
                                status |-> "completed", end_time |-> timestamp]
                          ELSE [@ EXCEPT !.cursor_responses = Append(@, response)]]
              ELSE s
    IN  IF Len(s1.conversation_turns) > turns_limit
        THEN [s1 EXCEPT !.conversation_turns = SubSeq(@, Len(@) - turns_keep + 1, Len(@))]
        ELSE s1

\* get_latest_conversation_context: the characters of a request or of a
\* response that are rendered
context_limit == 200

\* text[:context_limit]
Truncated(text) == SubSeq(text, 1, Min(context_limit, Len(text)))

\* get_latest_conversation_context: the lines rendered for the last turn of
\* conversation_turns, under the heading of the previous turn
PreviousLines(turn) ==
    <<[label |-> "previous", text |-> <<>>, count |-> 0],
      [label |-> "request", text |-> Truncated(turn.user_request), count |-> 0]>>
    \o (IF turn.cursor_responses # <<>>
        THEN <<[label |-> "reply",
                text |-> Truncated(turn.cursor_responses[Len(turn.cursor_responses)].content),
                count |-> 0]>>
        ELSE <<>>)

\* get_latest_conversation_context: the lines rendered for current_turn,
\* under the heading of the current turn
CurrentLines(turn) ==
    <<[label |-> "current", text |-> <<>>, count |-> 0],
      [label |-> "request", text |-> Truncated(turn.user_request), count |-> 0]>>
    \o (IF turn.cursor_responses # <<>>
        THEN <<[label |-> "replies",
                text |-> Truncated(turn.cursor_responses[Len(turn.cursor_responses)].content),
                count |-> Len(turn.cursor_responses)]>>
        ELSE <<>>)

\* get_latest_conversation_context: the text returned, as the placeholder
\* it is or as the lines it is made of
get_latest_conversation_context(s) ==
    IF s.conversation_turns = <<>> /\ s.current_turn = NoTurn
    THEN [status |-> "no_history", lines |-> <<>>]
    ELSE LET previous == IF s.conversation_turns # <<>>
                         THEN PreviousLines(s.conversation_turns[Len(s.conversation_turns)])
                         ELSE <<>>
             current == IF s.current_turn # NoTurn /\ s.current_turn.status = "active"
                        THEN CurrentLines(s.current_turn)
                        ELSE <<>>
             context_parts == previous \o current
         IN  IF context_parts # <<>>
             THEN [status |-> "rendered", lines |-> context_parts]
             ELSE [status |-> "no_context", lines |-> <<>>]

\* update_dialog_history when a shorter text only resets the time of the
\* last change
update_dialog_history_unless_shorter(s, current_text, t) ==
    IF current_text = <<>> \/ ~valid_of[current_text] THEN s
    ELSE IF Len(current_text) < Len(s.last_dialog_content)
    THEN [s EXCEPT !.last_content_change_time = t]
    ELSE IF current_text # s.last_dialog_content
    THEN LET appended == Append(s.dialog_history,
                                [timestamp |-> t, content |-> current_text])
             s1 == [s EXCEPT
                      !.last_content_change_time = t,
                      !.dialog_history =
                          IF Len(appended) > history_limit
                          THEN SubSeq(appended, Len(appended) - history_keep + 1,
                                      Len(appended))
                          ELSE appended]
         IN  [manage_conversation_turns(s1, current_text, t)
                EXCEPT !.last_dialog_content = current_text]
    ELSE s

\* update_dialog_history when a changed text restarts the count of repeats
update_dialog_history_restarting_repeats(s, current_text, t) ==
    IF current_text = <<>> \/ ~valid_of[current_text] THEN s
    ELSE IF current_text # s.last_dialog_content
    THEN LET appended == Append(s.dialog_history,
                                [timestamp |-> t, content |-> current_text])
             s1 == [s EXCEPT
                      !.last_content_change_time = t,
                      !.repeated_content_count = 0,
                      !.dialog_history =
                          IF Len(appended) > history_limit
                          THEN SubSeq(appended, Len(appended) - history_keep + 1,
                                      Len(appended))
                          ELSE appended]
         IN  [manage_conversation_turns(s1, current_text, t)
                EXCEPT !.last_dialog_content = current_text]
    ELSE s

\* update_dialog_history when the overflowing history keeps its oldest entries
update_dialog_history_keeping_oldest(s, current_text, t) ==
    IF current_text = <<>> \/ ~valid_of[current_text] THEN s
    ELSE IF current_text # s.last_dialog_content
    THEN LET appended == Append(s.dialog_history,
                                [timestamp |-> t, content |-> current_text])
             s1 == [s EXCEPT
                      !.last_content_change_time = t,
                      !.dialog_history =
                          IF Len(appended) > history_limit
                          THEN SubSeq(appended, 1, history_keep)
                          ELSE appended]
         IN  [manage_conversation_turns(s1, current_text, t)
                EXCEPT !.last_dialog_content = current_text]
    ELSE s

\* update_dialog_history at clock reading t
update_dialog_history(s, current_text, t) ==
    IF current_text = <<>> \/ ~valid_of[current_text] THEN s
    ELSE IF current_text # s.last_dialog_content
    THEN LET appended == Append(s.dialog_history,
                                [timestamp |-> t, content |-> current_text])
             s1 == [s EXCEPT
                      !.last_content_change_time = t,
                      !.dialog_history =
                          IF Len(appended) > history_limit
                          THEN SubSeq(appended, Len(appended) - history_keep + 1,
                                      Len(appended))
                          ELSE appended]
         IN  [manage_conversation_turns(s1, current_text, t)
                EXCEPT !.last_dialog_content = current_text]
    ELSE s

\* handle_repeated_content when a repeat counts as a change of content
handle_repeated_content_as_a_change(s, t) ==
    LET s1 == IF s.last_repeated_content_time = NoTime
              THEN [s EXCEPT !.repeated_content_count = 0,
                             !.last_repeated_content_time = t]
              ELSE s
        s2 == [s1 EXCEPT !.repeated_content_count = @ + 1,
                         !.last_content_change_time = t]
    IN  IF s2.repeated_content_count >= repeat_pause_threshold THEN s2
        ELSE IF t - s2.last_repeated_content_time > repeat_reset_time
        THEN [s2 EXCEPT !.repeated_content_count = 0,
                        !.last_repeated_content_time = t]
        ELSE s2

\* handle_repeated_content before its pause: the counter after the increment
\* and the reset after ten minutes; the pause of 30 s and the reset that
\* follows it are in MonitoringCycle, where the clock is
handle_repeated_content(s, t) ==
    LET s1 == IF s.last_repeated_content_time = NoTime
              THEN [s EXCEPT !.repeated_content_count = 0,
                             !.last_repeated_content_time = t]
              ELSE s
        s2 == [s1 EXCEPT !.repeated_content_count = @ + 1]
    IN  IF s2.repeated_content_count >= repeat_pause_threshold THEN s2
        ELSE IF t - s2.last_repeated_content_time > repeat_reset_time
        THEN [s2 EXCEPT !.repeated_content_count = 0,
                        !.last_repeated_content_time = t]
        ELSE s2

(* ---------------------------------------------------------------------- *)
(* monitoring_cycle                                                       *)
(* ---------------------------------------------------------------------- *)
\* the elapsed wall-clock times of one sleep of the loop
Steps == {StepShort, StepLong}

\* the tick ends: monitoring_cycle returns and the loop goes to sleep
EndTick(s, text, outcome, check, stuck) ==
    /\ Becomes(s)
    /\ pc' = "sleep"
    /\ tick' = [text |-> text, outcome |-> outcome,
                check |-> check, type |-> <<>>, sent |-> 0, ok |-> FALSE,
                stuck |-> stuck, generated |-> <<>>]
    /\ cycles' = cycles + 1
    /\ UNCHANGED <<project_planner, screen, now, should_stop, is_running, frame, fired>>

\* handle_gpt_content_analysis_intervention up to the call of the generator:
\* take the lock, mark the content processed
BeginDispatch(s, text, type, outcome, check, stuck, cleared) ==
    IF s.is_processing_message
    THEN EndTick([s EXCEPT !.is_processing_message = FALSE], text, "locked", check, stuck)
    ELSE /\ \E kept \in MarkedHashes(s.processed_message_hashes, text) :
               Becomes(mark_content_as_processed(
                           [s EXCEPT !.is_processing_message = TRUE], text, kept))
         /\ pc' = "generate"
         /\ extracted_text' = text
         /\ intervention_type' = type
         /\ pm_instruction' = <<>>
         /\ tick' = [text |-> text, outcome |-> outcome,
                     check |-> check, type |-> type, sent |-> 0, ok |-> FALSE,
                     stuck |-> stuck, generated |-> <<>>]
         /\ cycles' = cycles + 1
         /\ fired' = [x \in Snapshots |->
                        IF x = text THEN (IF cleared THEN 0 ELSE fired[x]) + 1
                        ELSE IF cleared THEN 0 ELSE fired[x]]
         /\ UNCHANGED <<project_planner, screen, now, should_stop, is_running>>

\* InterventionType when every completed signal is looked at before the
\* busy signal
InterventionType_completed_first(s, text, t) ==
    LET has_review_changes == review_of[text]
        cursor_generating == generating_of[text, s.last_dialog_content]
        content_stuck == is_content_stuck(text, s.last_dialog_content,
                                          s.last_content_change_time, t)
    IN  IF has_review_changes THEN T_REVIEW
        ELSE IF finished_of[text] THEN T_FINISHED
        ELSE IF cursor_generating THEN <<>>
        ELSE IF content_stuck THEN T_STUCK
        ELSE <<>>

\* InterventionType when the busy signal is looked at before the review
\* marker
InterventionType_busy_first(s, text, t) ==
    LET has_review_changes == review_of[text]
        cursor_generating == generating_of[text, s.last_dialog_content]
        content_stuck == is_content_stuck(text, s.last_dialog_content,
                                          s.last_content_change_time, t)
    IN  IF cursor_generating THEN <<>>
        ELSE IF has_review_changes THEN T_REVIEW
        ELSE IF content_stuck THEN T_STUCK
        ELSE IF finished_of[text] THEN T_FINISHED
        ELSE <<>>

\* monitoring_cycle lines 565-626: the intervention type decided for a text
\* that passed the guard and update_dialog_history; <<>> for no intervention
InterventionType(s, text, t) ==
    LET has_review_changes == review_of[text]
        cursor_generating == generating_of[text, s.last_dialog_content]
        content_stuck == is_content_stuck(text, s.last_dialog_content,
                                          s.last_content_change_time, t)
    IN  IF has_review_changes THEN T_REVIEW
        ELSE IF cursor_generating THEN <<>>
        ELSE IF content_stuck THEN T_STUCK
        ELSE IF finished_of[text] /\ ~cursor_generating THEN T_FINISHED
        ELSE <<>>

\* monitoring_cycle lines 568-579: the supervisor after the state detection
AfterDetection(s, text, t) ==
    [s EXCEPT
       !.last_content_change_time =
           is_content_stuck_change_time(text, s.last_dialog_content, @, t),
       !.cursor_is_processing = generating_of[text, s.last_dialog_content]]

\* stuck_too_long measured from the last change of the dialog content
stuck_too_long_since_change(s, t) == t - s.last_content_change_time > max_stuck_time

\* stuck_too_long when the valve never opens
stuck_too_long_never(s, t) == FALSE

\* monitoring_cycle lines 520-522: more than max_stuck_time without progress
stuck_too_long(s, t) == t - s.last_progress_time > max_stuck_time

\* ForceReset when the processed fingerprints are kept
ForceReset_keeps_hashes(s, t) ==
    [s EXCEPT !.content_repetition_count = <<>>,
              !.is_processing_message = FALSE,
              !.last_progress_time = t]

\* ForceReset when the valve leaves the time of the last progress alone
ForceReset_keeps_progress_time(s, t) ==
    [s EXCEPT !.processed_message_hashes = {},
              !.content_repetition_count = <<>>,
              !.is_processing_message = FALSE]

\* monitoring_cycle lines 524-528: the escalation valve clears the suppression state
ForceReset(s, t) ==
    [s EXCEPT !.processed_message_hashes = {},
              !.content_repetition_count = <<>>,
              !.is_processing_message = FALSE,
              !.last_progress_time = t]

\* monitoring_cycle when no screenshot is taken or no window is detected
CaptureFails ==
    /\ pc = "loop"
    /\ is_running /\ ~should_stop
    /\ cycles < MaxCycles
    /\ EndTick(Self, <<>>, "no_capture", 0, FALSE)

\* CycleRaises when the exception leaves monitoring_cycle and ends the loop
CycleRaises_propagates ==
    /\ pc = "loop"
    /\ is_running /\ ~should_stop
    /\ cycles < MaxCycles
    /\ pc' = "stopped"
    /\ is_running' = FALSE
    /\ tick' = [NoTick EXCEPT !.outcome = "raised"]
    /\ cycles' = cycles + 1
    /\ UNCHANGED <<project_planner, screen, now, should_stop, sup, frame, fired>>

\* monitoring_cycle when the capture, the window detection or the text
\* extraction raises: the except clause of monitoring_cycle logs the
\* exception and the call returns
CycleRaises ==
    /\ pc = "loop"
    /\ is_running /\ ~should_stop
    /\ cycles < MaxCycles
    /\ EndTick(Self, <<>>, "raised", 0, FALSE)

\* MonitoringCycle when substantially the same content is dispatched without
\* waiting for the 60 s
MonitoringCycle_no_wait(text) ==
    /\ pc = "loop"
    /\ is_running /\ ~should_stop
    /\ cycles < MaxCycles
    /\ text \in screen \cup {invalid \in Snapshots : ~valid_of[invalid]}
    /\ IF ~valid_of[text] THEN EndTick(Self, text, "invalid", 0, FALSE)
       ELSE
         LET check == DuplicateCheck(Self, text, now)
             s1 == AfterDuplicateCheck(Self, text, now)
         IN  IF is_duplicate_processing(Self, text, now)
             THEN IF stuck_too_long(s1, now)
                  THEN BeginDispatch(ForceReset(s1, now), text, T_FORCE, "forced",
                                     check, FALSE, TRUE)
                  ELSE EndTick(s1, text, "suppressed", check, FALSE)
             ELSE IF same_of[text, s1.last_dialog_content]
             THEN IF now - s1.last_content_change_time >= 0
                  THEN BeginDispatch(s1, text, T_TIMEOUT, "timeout", 0, FALSE, FALSE)
                  ELSE LET s2 == handle_repeated_content(s1, now)
                       IN  IF s2.repeated_content_count >= repeat_pause_threshold
                           THEN /\ now + pause_duration <= MaxTime
                                /\ now' = now + pause_duration
                                /\ Becomes([s2 EXCEPT !.repeated_content_count = 0])
                                /\ pc' = "sleep"
                                /\ tick' = [NoTick EXCEPT !.text = text,
                                                          !.outcome = "paused"]
                                /\ cycles' = cycles + 1
                                /\ UNCHANGED <<project_planner, screen, should_stop, is_running, frame, fired>>
                           ELSE EndTick(s2, text, "repeated", 0, FALSE)
             ELSE LET s2 == update_dialog_history(s1, text, now)
                      type == InterventionType(s2, text, now)
                      content_stuck == is_content_stuck(text, s2.last_dialog_content,
                                                        s2.last_content_change_time, now)
                      s3 == AfterDetection(s2, text, now)
                  IN  IF type # <<>>
                      THEN BeginDispatch(s3, text, type, "intervene", 0, content_stuck,
                                         FALSE)
                      ELSE EndTick(s3, text, "idle", 0, content_stuck)

\* one call of monitoring_cycle that extracts the text, up to its return or
\* to its first await inside the dispatch
MonitoringCycle(text) ==
    /\ pc = "loop"
    /\ is_running /\ ~should_stop
    /\ cycles < MaxCycles
    /\ text \in screen \cup {invalid \in Snapshots : ~valid_of[invalid]}
    /\ IF ~valid_of[text] THEN EndTick(Self, text, "invalid", 0, FALSE)
       ELSE
         LET check == DuplicateCheck(Self, text, now)
             s1 == AfterDuplicateCheck(Self, text, now)
         IN  IF is_duplicate_processing(Self, text, now)
             THEN IF stuck_too_long(s1, now)
                  THEN BeginDispatch(ForceReset(s1, now), text, T_FORCE, "forced",
                                     check, FALSE, TRUE)
                  ELSE EndTick(s1, text, "suppressed", check, FALSE)
             ELSE IF same_of[text, s1.last_dialog_content]
             THEN IF now - s1.last_content_change_time > same_content_timeout
                  THEN BeginDispatch(s1, text, T_TIMEOUT, "timeout", 0, FALSE, FALSE)
                  ELSE LET s2 == handle_repeated_content(s1, now)
                       IN  IF s2.repeated_content_count >= repeat_pause_threshold
                           THEN /\ now + pause_duration <= MaxTime
                                /\ now' = now + pause_duration
                                /\ Becomes([s2 EXCEPT !.repeated_content_count = 0])
                                /\ pc' = "sleep"
                                /\ tick' = [NoTick EXCEPT !.text = text,
                                                          !.outcome = "paused"]
                                /\ cycles' = cycles + 1
                                /\ UNCHANGED <<project_planner, screen, should_stop, is_running, frame, fired>>
                           ELSE EndTick(s2, text, "repeated", 0, FALSE)
             ELSE LET s2 == update_dialog_history(s1, text, now)
                      type == InterventionType(s2, text, now)
                      content_stuck == is_content_stuck(text, s2.last_dialog_content,
                                                        s2.last_content_change_time, now)
                      s3 == AfterDetection(s2, text, now)
                  IN  IF type # <<>>
                      THEN BeginDispatch(s3, text, type, "intervene", 0, content_stuck,
                                         FALSE)
                      ELSE EndTick(s3, text, "idle", 0, content_stuck)

(* ---------------------------------------------------------------------- *)
(* The project planner: src/modules/project_planner.py                    *)
(* ---------------------------------------------------------------------- *)
\* ProjectPlanner.completion_keywords: the Chinese keywords, then
\* "finished", "completed", "done", "success", "successfully" and the two check marks
completion_keywords ==
    {
      <<"U+5B8C", "U+6210">>,
      <<"U+5B8C", "U+5DE5">>,
      <<"U+5B8C", "U+6BD5">>,
      <<"U+5DF2", "U+5B8C", "U+6210">>,
      <<"f", "i", "n", "i", "s", "h", "e", "d">>,
      <<"c", "o", "m", "p", "l", "e", "t", "e", "d">>,
      <<"d", "o", "n", "e">>,
      <<"U+5B9E", "U+73B0">>,
      <<"U+521B", "U+5EFA", "U+6210", "U+529F">>,
      <<"U+751F", "U+6210", "U+6210", "U+529F">>,
      <<"U+6D4B", "U+8BD5", "U+901A", "U+8FC7">>,
      <<"U+8FD0", "U+884C", "U+6210", "U+529F">>,
      <<"U+2705">>,
      <<"U+2713">>,
      <<"s", "u", "c", "c", "e", "s", "s">>,
      <<"s", "u", "c", "c", "e", "s", "s", "f", "u", "l", "l", "y">>
    }

\* the titles of the tasks that _parse_project_content found in the
\* project file: "Build code", "Add tasks", "Edit tasks", "Write docs"; the id of a task is its index, counted from 0
ProjectTasks ==
    <<<<"B", "u", "i", "l", "d", " ", "c", "o", "d", "e">>,
      <<"A", "d", "d", " ", "t", "a", "s", "k", "s">>,
      <<"E", "d", "i", "t", " ", "t", "a", "s", "k", "s">>,
      <<"W", "r", "i", "t", "e", " ", "d", "o", "c", "s">>>>

\* str.split()
RECURSIVE Words(_)
Words(s) ==
    LET t == LStrip(s)
    IN  IF t = <<>> THEN <<>>
        ELSE LET n == IF \E i \in 1..Len(t) : IsSpace(t[i])
                      THEN CHOOSE i \in 1..Len(t) :
                              /\ IsSpace(t[i])
                              /\ \A j \in 1..(i - 1) : ~IsSpace(t[j])
                      ELSE Len(t) + 1
             IN  <<SubSeq(t, 1, n - 1)>> \o Words(SubSeq(t, n, Len(t)))

\* re.search(r'(?:a|...).*(?:b|...)', s): one of firsts, then on the same
\* line one of seconds
SearchInOrder(s, firsts, seconds) ==
    \E a \in firsts, b \in seconds :
       \E i \in 0..(Len(s) - Len(a)) :
          /\ SubSeq(s, i + 1, i + Len(a)) = a
          /\ \E j \in (i + Len(a))..(Len(s) - Len(b)) :
                /\ SubSeq(s, j + 1, j + Len(b)) = b
                /\ \A k \in (i + Len(a) + 1)..j : s[k] # "\n"

\* ProjectPlanner.is_task_completed(cursor_reply, task), task given by its title
is_task_completed(cursor_reply, title) ==
    IF cursor_reply = <<>> THEN FALSE
    ELSE
      LET reply_lower == Lower(cursor_reply)
          words == Words(Lower(title))
          title_words == {words[i] : i \in 1..Len(words)}
      IN  \/ /\ \E keyword \in completion_keywords : Contains(reply_lower, Lower(keyword))
             /\ \E word \in title_words : Contains(reply_lower, word)
          \/ /\ words # <<>>
             /\ SearchInOrder(reply_lower,
                    {a \o b : a \in {<<"U+5DF2">>, <<"U+6210", "U+529F">>},
                              b \in {<<"U+521B", "U+5EFA">>, <<"U+5B9E", "U+73B0">>, <<"U+5B8C", "U+6210">>, <<"U+751F", "U+6210">>}},
                    {words[1]})
          \/ SearchInOrder(reply_lower,
                 {<<"U+5B8C", "U+6210">>, <<"f", "i", "n", "i", "s", "h", "e", "d">>, <<"c", "o", "m", "p", "l", "e", "t", "e", "d">>, <<"d", "o", "n", "e">>},
                 {<<"U+4EFB", "U+52A1">>, <<"t", "a", "s", "k">>})
          \/ SearchInOrder(reply_lower,
                 {<<"U+6D4B", "U+8BD5">>, <<"t", "e", "s", "t">>},
                 {<<"U+901A", "U+8FC7">>, <<"p", "a", "s", "s", "e", "d">>, <<"s", "u", "c", "c", "e", "s", "s">>})
          \/ SearchInOrder(reply_lower,
                 {<<"U+8FD0", "U+884C">>, <<"r", "u", "n">>},
                 {<<"U+6210", "U+529F">>, <<"s", "u", "c", "c", "e", "s", "s", "f", "u", "l", "l", "y">>})

\* is_task_completed tabulated for the texts and the tasks of the project
task_completed_of ==
    [text \in Texts, id \in 0..(Len(ProjectTasks) - 1) |->
        is_task_completed(text, ProjectTasks[id + 1])]

\* ProjectPlanner.get_current_task: the id of the current task, or None
get_current_task(p) ==
    IF 0 <= p.current_task_index /\ p.current_task_index < Len(ProjectTasks)
    THEN p.current_task_index
    ELSE NoTask

\* ProjectPlanner.mark_task_completed
mark_task_completed(p, task_id) ==
    [p EXCEPT !.completed_tasks = @ \cup {task_id}]

\* ProjectPlanner.move_to_next_task
move_to_next_task(p) ==
    [p EXCEPT !.current_task_index = @ + 1]

\* ProjectPlanner.generate_task_instruction(cursor_reply): the planner after
\* the call
generate_task_instruction(p, cursor_reply) ==
    LET current_task == get_current_task(p)
    IN  IF current_task = NoTask THEN p
        ELSE IF task_completed_of[cursor_reply, current_task]
        THEN move_to_next_task(mark_task_completed(p, current_task))
        ELSE p

\* generate_gpt_product_manager_instruction lines 1672-1698: the planner
\* after the call; without a planner nothing is kept
generate_gpt_product_manager_instruction(p, cursor_reply) ==
    IF p = NoPlanner THEN p
    ELSE
      LET current_task == get_current_task(p)
          checked == IF current_task # NoTask /\ task_completed_of[cursor_reply, current_task]
                     THEN [mark_task_completed(p, current_task)
                              EXCEPT !.current_task_index = @ + 1]
                     ELSE p
      IN  generate_task_instruction(checked, cursor_reply)

(* ---------------------------------------------------------------------- *)
(* The dispatch: handle_gpt_content_analysis_intervention                 *)
(* ---------------------------------------------------------------------- *)
\* what generate_gpt_product_manager_instruction can return: a reply of the
\* language model, or its own fallback when the call raised
GeneratorResults(type) ==
    {G_LONG, G_SHORT, <<>>,
     IF type = REVIEW_TYPE THEN GEN_FALLBACK_REVIEW ELSE GEN_FALLBACK}

\* the dispatch returns: its frame is gone
ReturnFromDispatch ==
    /\ extracted_text' = <<>>
    /\ intervention_type' = <<>>
    /\ pm_instruction' = <<>>

\* the generator returns; the instruction is handed to the executor
GeneratorReturn(result) ==
    /\ pc = "generate"
    /\ result \in GeneratorResults(intervention_type)
    /\ pm_instruction' = checked_instruction(result, intervention_type)
    /\ pc' = "type"
    /\ tick' = [tick EXCEPT !.generated = result]
    /\ project_planner' = generate_gpt_product_manager_instruction(project_planner,
                                                                   extracted_text)
    /\ UNCHANGED <<screen, now, should_stop, is_running, sup, extracted_text, intervention_type,
                   fired, cycles>>

\* ExecutorReturn when the lock is released on the success path only
ExecutorReturn_release_on_success(success) ==
    /\ pc = "type"
    /\ IF success
       THEN /\ last_instruction_sent' = pm_instruction
            /\ last_instruction_time' = now
            /\ last_content_change_time' = now
            /\ last_progress_time' = now
            /\ is_processing_message' = FALSE
       ELSE UNCHANGED <<last_instruction_sent, last_instruction_time,
                        last_content_change_time, last_progress_time,
                        is_processing_message>>
    /\ tick' = [tick EXCEPT !.sent = @ + 1, !.ok = success]
    /\ ReturnFromDispatch
    /\ pc' = "sleep"
    /\ UNCHANGED <<project_planner, screen, now, should_stop, is_running, processed_message_hashes,
                   last_processed_content_hash, content_repetition_count,
                   last_dialog_content, dialog_history, conversation_turns, current_turn,
                   cursor_is_processing, repeated_content_count,
                   last_repeated_content_time, fired, cycles>>

\* ensure_input_focus_and_type returns success or failure; the finally
\* block releases the lock
ExecutorReturn(success) ==
    /\ pc = "type"
    /\ IF success
       THEN /\ last_instruction_sent' = pm_instruction
            /\ last_instruction_time' = now
            /\ last_content_change_time' = now
            /\ last_progress_time' = now
       ELSE UNCHANGED <<last_instruction_sent, last_instruction_time,
                        last_content_change_time, last_progress_time>>
    /\ is_processing_message' = FALSE
    /\ tick' = [tick EXCEPT !.sent = @ + 1, !.ok = success]
    /\ ReturnFromDispatch
    /\ pc' = "sleep"
    /\ UNCHANGED <<project_planner, screen, now, should_stop, is_running, processed_message_hashes,
                   last_processed_content_hash, content_repetition_count,
                   last_dialog_content, dialog_history, conversation_turns, current_turn,
                   cursor_is_processing, repeated_content_count,
                   last_repeated_content_time, fired, cycles>>

\* an exception is raised inside the try block of the dispatch: the except
\* clause sends the fixed fallback instruction
DispatchRaises ==
    /\ pc \in {"generate", "type"}
    /\ pm_instruction' = EXCEPT_FALLBACK
    /\ pc' = "fallback"
    /\ UNCHANGED <<project_planner, screen, now, should_stop, is_running, sup, extracted_text, intervention_type,
                   tick, fired, cycles>>

\* the executor returns from the fallback instruction; its result is not
\* looked at; the finally block releases the lock
FallbackReturn(success) ==
    /\ pc = "fallback"
    /\ last_instruction_time' = now
    /\ is_processing_message' = FALSE
    /\ tick' = [tick EXCEPT !.sent = @ + 1, !.ok = success]
    /\ ReturnFromDispatch
    /\ pc' = "sleep"
    /\ UNCHANGED <<project_planner, screen, now, should_stop, is_running, processed_message_hashes,
                   last_processed_content_hash, content_repetition_count,
                   last_instruction_sent, last_dialog_content, dialog_history,
                   conversation_turns, current_turn, cursor_is_processing,
                   last_content_change_time, last_progress_time, repeated_content_count,
                   last_repeated_content_time, fired, cycles>>

(* ---------------------------------------------------------------------- *)
(* The polling loop: start_monitoring, signal_handler, cleanup            *)
(* ---------------------------------------------------------------------- *)
\* asyncio.sleep after the cycle; the wall clock has advanced by dt
Sleep(dt) ==
    /\ pc = "sleep"
    /\ now + dt <= MaxTime
    /\ now' = now + dt
    /\ pc' = "loop"
    /\ UNCHANGED <<project_planner, screen, should_stop, is_running, sup, frame, tick, fired, cycles>>

\* signal_handler
SignalHandler ==
    /\ pc # "stopped"
    /\ ~should_stop
    /\ should_stop' = TRUE
    /\ UNCHANGED <<project_planner, screen, now, pc, is_running, sup, frame, tick, fired, cycles>>

\* Cleanup when the stop signal interrupts the tick wherever it is
Cleanup_at_once ==
    /\ pc # "stopped"
    /\ should_stop
    /\ is_running' = FALSE
    /\ pc' = "stopped"
    /\ UNCHANGED <<project_planner, screen, now, should_stop, sup, frame, tick, fired, cycles>>

\* the loop condition fails: cleanup
Cleanup ==
    /\ pc = "loop"
    /\ should_stop
    /\ is_running' = FALSE
    /\ pc' = "stopped"
    /\ UNCHANGED <<project_planner, screen, now, should_stop, sup, frame, tick, fired, cycles>>

Next ==
    \/ CaptureFails
    \/ CycleRaises
    \/ \E text \in Snapshots : MonitoringCycle(text)
    \/ \E result \in {G_LONG, G_SHORT, <<>>, GEN_FALLBACK, GEN_FALLBACK_REVIEW} :
          GeneratorReturn(result)
    \/ \E success \in BOOLEAN : ExecutorReturn(success)
    \/ DispatchRaises
    \/ \E success \in BOOLEAN : FallbackReturn(success)
    \/ \E dt \in Steps : Sleep(dt)
    \/ SignalHandler
    \/ Cleanup

Spec == Init /\ [][Next]_vars

(* ---------------------------------------------------------------------- *)
(* The polling loop running without end                                   *)
(* ---------------------------------------------------------------------- *)
\* the supervisor as constructed, the screen showing one valid text
LoopInit ==
    /\ project_planner = NoPlanner
    /\ \E text \in Snapshots : valid_of[text] /\ screen = {text}
    /\ now = StartTime
    /\ pc = "loop"
    /\ should_stop = FALSE
    /\ is_running = TRUE
    /\ is_processing_message = FALSE
    /\ last_instruction_time = 0
    /\ processed_message_hashes = {}
    /\ last_processed_content_hash = None
    /\ content_repetition_count = <<>>
    /\ last_instruction_sent = <<>>
    /\ last_dialog_content = <<>>
    /\ dialog_history = <<>>
    /\ conversation_turns = <<>>
    /\ current_turn = NoTurn
    /\ cursor_is_processing = FALSE
    /\ last_content_change_time = StartTime
    /\ last_progress_time = StartTime
    /\ repeated_content_count = 0
    /\ last_repeated_content_time = NoTime
    /\ extracted_text = <<>>
    /\ intervention_type = <<>>
    /\ pm_instruction = <<>>
    /\ tick = NoTick
    /\ fired = [t \in Snapshots |-> 0]
    /\ cycles = 0

\* a clock reading x after the origin of the clock is moved by shift: the
\* program reads the clock only in differences time.time() - x, compared
\* with thresholds below cap, so that all readings more than cap old are
\* alike
Moved(x, shift, cap) ==
    IF x = NoTime THEN NoTime
    ELSE IF x - shift < FrameBase - cap THEN FrameBase - cap
    ELSE x - shift

\* asyncio.sleep after the cycle, in a run without end: the wall clock has
\* advanced by dt, and the origin of the clock is moved when the clock would
\* read more than FrameBase
SleepOn(dt) ==
    /\ pc = "sleep"
    /\ LET t == now + dt
           shift == IF t > FrameBase THEN t - FrameBase ELSE 0
       IN  /\ now' = t - shift
           /\ last_instruction_time' = Moved(last_instruction_time, shift, FrameBase)
           /\ last_content_change_time' = Moved(last_content_change_time, shift, FrameBase)
           /\ last_progress_time' = Moved(last_progress_time, shift, FrameBase)
           /\ last_repeated_content_time' =
                 Moved(last_repeated_content_time, shift, repeat_reset_time + 1)
    /\ cycles' = 0
    /\ pc' = "loop"
    /\ UNCHANGED <<project_planner, screen, should_stop, is_running, is_processing_message,
                   processed_message_hashes, last_processed_content_hash,
                   content_repetition_count, last_instruction_sent, last_dialog_content,
                   dialog_history, conversation_turns, current_turn, cursor_is_processing,
                   repeated_content_count, frame, tick, fired>>

\* in a run without end every sleep of the loop takes the long step
LoopSteps == {StepLong}

\* the steps of the loop itself: every await of the loop returns
LoopStep ==
    \/ CaptureFails
    \/ CycleRaises
    \/ \E text \in Snapshots : MonitoringCycle(text)
    \/ \E result \in {G_LONG, G_SHORT, <<>>, GEN_FALLBACK, GEN_FALLBACK_REVIEW} :
          GeneratorReturn(result)
    \/ \E success \in BOOLEAN : ExecutorReturn(success)
    \/ DispatchRaises
    \/ \E success \in BOOLEAN : FallbackReturn(success)
    \/ \E dt \in LoopSteps : SleepOn(dt)
    \/ Cleanup

LoopNext ==
    \/ LoopStep
    \/ SignalHandler

\* start_monitoring is one coroutine: it is scheduled again after each of
\* its awaits, so a step of the loop that stays possible is taken
LoopSpec == LoopInit /\ [][LoopNext]_vars /\ WF_vars(LoopStep)

(* ---------------------------------------------------------------------- *)
(* The polling loop with short sleeps only                                *)
(* ---------------------------------------------------------------------- *)
\* SleepShort when the loop goes on without awaiting the cycle
SleepShort_without_await ==
    /\ pc \in {"sleep", "generate", "type"}
    /\ now + StepShort <= BackoffTime
    /\ now' = now + StepShort
    /\ cycles' = 0
    /\ pc' = "loop"
    /\ UNCHANGED <<project_planner, screen, should_stop, is_running, sup, frame, tick, fired>>

\* asyncio.sleep after the cycle, the wall clock having advanced by
\* StepShort; the count of cycles starts again so that the run is bounded by
\* the clock alone
SleepShort ==
    /\ pc = "sleep"
    /\ now + StepShort <= BackoffTime
    /\ now' = now + StepShort
    /\ cycles' = 0
    /\ pc' = "loop"
    /\ UNCHANGED <<project_planner, screen, should_stop, is_running, sup, frame, tick, fired>>

\* the loop while every capture succeeds with a valid text and no stop is
\* requested
BackoffNext ==
    \/ \E text \in screen : MonitoringCycle(text)
    \/ \E result \in {G_LONG, G_SHORT, <<>>, GEN_FALLBACK, GEN_FALLBACK_REVIEW} :
          GeneratorReturn(result)
    \/ \E success \in BOOLEAN : ExecutorReturn(success)
    \/ DispatchRaises
    \/ \E success \in BOOLEAN : FallbackReturn(success)
    \/ SleepShort

BackoffSpec == Init /\ [][BackoffNext]_vars

(* ---------------------------------------------------------------------- *)
(* is_content_stuck called on its own                                     *)
(* ---------------------------------------------------------------------- *)
\* the times, in seconds, since last_content_change_time at the call
StableDurations == {29, 31, 49, 51, 59, 61}

\* the supervisor as constructed, the dialog content last recorded being
\* any text and the content having last changed at StartTime
StuckInit ==
    /\ project_planner = NoPlanner
    /\ screen \in Screens
    /\ \E duration \in StableDurations : now = StartTime + duration
    /\ pc = "call"
    /\ should_stop = FALSE
    /\ is_running = TRUE
    /\ is_processing_message = FALSE
    /\ last_instruction_time = 0
    /\ processed_message_hashes = {}
    /\ last_processed_content_hash = None
    /\ content_repetition_count = <<>>
    /\ last_instruction_sent = <<>>
    /\ last_dialog_content \in Snapshots
    /\ dialog_history = <<>>
    /\ conversation_turns = <<>>
    /\ current_turn = NoTurn
    /\ cursor_is_processing = FALSE
    /\ last_content_change_time = StartTime
    /\ last_progress_time = StartTime
    /\ repeated_content_count = 0
    /\ last_repeated_content_time = NoTime
    /\ extracted_text = <<>>
    /\ intervention_type = <<>>
    /\ pm_instruction = <<>>
    /\ tick = NoTick
    /\ fired = [t \in Snapshots |-> 0]
    /\ cycles = 0

\* one call is_content_stuck(current_text); the value returned goes to tick.stuck
ContentStuckCall(current_text) ==
    /\ pc = "call"
    /\ tick' = [NoTick EXCEPT
                  !.text = current_text,
                  !.outcome = "called",
                  !.stuck = is_content_stuck(current_text, last_dialog_content,
                                             last_content_change_time, now)]
    /\ last_content_change_time' =
           is_content_stuck_change_time(current_text, last_dialog_content,
                                        last_content_change_time, now)
    /\ pc' = "returned"
    /\ UNCHANGED <<project_planner, screen, now, should_stop, is_running, is_processing_message,
                   last_instruction_time, processed_message_hashes,
                   last_processed_content_hash, content_repetition_count,
                   last_instruction_sent, last_dialog_content, dialog_history,
                   conversation_turns, current_turn, cursor_is_processing,
                   last_progress_time, repeated_content_count,
                   last_repeated_content_time, frame, fired, cycles>>

StuckNext == \E current_text \in Snapshots : ContentStuckCall(current_text)

StuckSpec == StuckInit /\ [][StuckNext]_vars


(* ---------------------------------------------------------------------- *)
(* Properties                                                             *)
(* ---------------------------------------------------------------------- *)
\* the loop is inside handle_gpt_content_analysis_intervention
Dispatching == pc \in {"generate", "type", "fallback"}

\* C1: is_processing_message is true exactly while one dispatch is
\* executing: it is set before the generator is called, it is false again
\* after every exit of the dispatch (success, failure, exception), so it is
\* false at the start and at the end of every tick and no dispatch begins
\* while it is true
C1_LockHeldExactlyDuringDispatch == is_processing_message <=> Dispatching

\* a dispatch whose executor call failed has returned and released the lock
C1_Witness ==
    /\ pc = "sleep"
    /\ tick.type # <<>>
    /\ tick.sent = 1
    /\ last_instruction_sent = <<>>
    /\ ~is_processing_message

\* C2: every non-forced intervention starts at least instruction_cooldown
\* after last_instruction_time: a tick inside the cooldown window is
\* suppressed by the guard (check 2) and dispatches only if the escalation
\* valve fires
C2_CooldownRespected ==
    /\ (Dispatching /\ tick.outcome # "forced")
          => now - last_instruction_time >= instruction_cooldown
    /\ tick.check = 2 => tick.outcome \in {"suppressed", "forced"}

\* a tick in the cooldown window of an instruction that was sent is suppressed
C2_Witness ==
    /\ tick.outcome = "suppressed"
    /\ tick.check = 2
    /\ last_instruction_sent # <<>>
    /\ now - last_instruction_time < instruction_cooldown

C4_OnePerTickUpToLimit ==
    [][(/\ cycles' = cycles + 1
        /\ tick.type # <<>>
        /\ tick.ok
        /\ valid_of[tick.text]
        /\ tick'.text = tick.text
        /\ fired[tick.text] < max_same_content_processing
        /\ now - last_instruction_time >= instruction_cooldown)
       => tick'.type # <<>>]_vars

\* C5: when the escalation valve fires (the tick is suppressed by the
\* guard and more than max_stuck_time has passed since the last progress)
\* the processed fingerprints and the repetition counter are emptied and
\* the lock is free for the one dispatch of type force_progress that the
\* tick starts, whatever the cooldown and the fingerprints said; that
\* dispatch calls the executor once; the tick that follows is not forced
\* and is suppressed when it shows the same text or falls inside the
\* cooldown window
C5_ValveFiresOnce ==
    [][/\ (cycles' = cycles + 1 /\ tick'.outcome = "forced")
            => /\ tick'.check # 0
               /\ now - last_progress_time > max_stuck_time
               /\ pc' = "generate"
               /\ is_processing_message'
               /\ intervention_type' = T_FORCE
               /\ tick'.type = T_FORCE
               /\ processed_message_hashes' = {hash_of[tick'.text]}
               /\ content_repetition_count' = <<>>
               /\ fired' = [x \in Snapshots |-> IF x = tick'.text THEN 1 ELSE 0]
       /\ (tick'.outcome = "forced" /\ pc' = "sleep") => tick'.sent = 1
       /\ (cycles' = cycles + 1 /\ tick.outcome = "forced" /\ valid_of[tick'.text])
            => /\ tick'.outcome # "forced"
               /\ tick'.text = tick.text => tick'.outcome = "suppressed"
               /\ now - last_instruction_time < instruction_cooldown
                     => tick'.outcome = "suppressed"]_vars

\* the tick after a forced intervention is suppressed: the counter was
\* emptied by the valve and the fingerprint of the forced text is recorded
C5_Witness ==
    /\ tick.outcome = "suppressed"
    /\ content_repetition_count = <<>>
    /\ processed_message_hashes = {hash_of[tick.text]}
    /\ fired[tick.text] = 1

\* C6 as stated: a valid tick suppressed by the guard while the time since
\* the last change of the dialog content (now - last_content_change_time)
\* exceeds max_stuck_time is a forced tick
C6_ValveByStableDuration ==
    [][(/\ cycles' = cycles + 1
        /\ valid_of[tick'.text]
        /\ tick'.check # 0
        /\ now - last_content_change_time > max_stuck_time)
       => tick'.outcome = "forced"]_vars

\* C6 amended: a valid tick suppressed by the guard is a forced tick exactly
\* when the time since the last progress (now - last_progress_time: the
\* last instruction typed with success or the last forced reset) exceeds
\* max_stuck_time; the forced tick leaves of the suppression state only
\* what its own dispatch records and starts that one dispatch
C6_ValveByProgressTime ==
    [][(/\ cycles' = cycles + 1
        /\ valid_of[tick'.text]
        /\ tick'.check # 0)
       => /\ tick'.outcome = "forced" <=> now - last_progress_time > max_stuck_time
          /\ tick'.outcome # "forced" => tick'.outcome = "suppressed" /\ pc' = "sleep"
          /\ tick'.outcome = "forced"
                => /\ processed_message_hashes' \subseteq {hash_of[tick'.text]}
                   /\ content_repetition_count' = <<>>
                   /\ last_progress_time' = now
                   /\ pc' = "generate"
                   /\ tick'.type = T_FORCE]_vars

\* the valve fires although the dialog content changed less than
\* max_stuck_time ago
C6_Witness ==
    /\ tick.outcome = "forced"
    /\ pc = "generate"
    /\ now - last_content_change_time <= max_stuck_time

\* C7: a tick whose capture fails, or whose text is empty, shorter than
\* min_valid_length once stripped, or carries an OCR failure pattern,
\* changes no attribute of the supervisor (dialog history, repetition
\* counter, processed fingerprints, timers, conversation turns, lock,
\* instruction state) and dispatches nothing
C7_InvalidTickMutatesNothing ==
    [][(/\ cycles' = cycles + 1
        /\ \/ tick'.outcome = "no_capture"
           \/ tick'.text = <<>>
           \/ stripped_length_of[tick'.text] < min_valid_length
           \/ ocr_failure_of[tick'.text])
       => /\ UNCHANGED <<sup, frame, fired>>
          /\ pc' = "sleep"
          /\ tick'.type = <<>>]_vars

\* a tick showing an OCR failure text has ended after the supervisor had
\* recorded content, counted it and marked it processed
C7_Witness ==
    /\ tick.outcome = "invalid"
    /\ tick.text = S_DARK
    /\ pc = "sleep"
    /\ dialog_history # <<>>
    /\ content_repetition_count # <<>>
    /\ processed_message_hashes # {}

\* C8 as stated: no dispatch is in progress for a text that contains the
\* instruction last sent when that instruction is longer than echo_min_length
C8_EchoNeverIntervenes ==
    ~(pc = "generate" /\ echo_of[tick.text, last_instruction_sent])

\* C8 amended: a valid tick whose text contains the instruction last sent,
\* that instruction being longer than echo_min_length, is suppressed by the
\* guard even when the text carries the review marker, and it dispatches
\* only as the forced intervention of the escalation valve, more than
\* max_stuck_time after the last progress
C8_EchoSuppressedUnlessForced ==
    [][(/\ cycles' = cycles + 1
        /\ valid_of[tick'.text]
        /\ echo_of[tick'.text, last_instruction_sent])
       => /\ tick'.check # 0
          /\ tick'.outcome \in {"suppressed", "forced"}
          /\ tick'.outcome = "forced" <=> now - last_progress_time > max_stuck_time
          /\ tick'.outcome = "suppressed" => tick'.type = <<>> /\ pc' = "sleep"]_vars

\* a text that carries the review marker is suppressed as an echo
C8_Witness ==
    /\ tick.outcome = "suppressed"
    /\ tick.check = 6
    /\ review_of[tick.text]
    /\ finished_of[tick.text]
    /\ echo_of[tick.text, last_instruction_sent]

\* C9 as stated: a text that reaches the classification with a completed
\* signal (review marker, completion phrase or question prompt) and a busy
\* signal triggers an intervention
C9_CompletedBeatsBusy ==
    [][(/\ cycles' = cycles + 1
        /\ tick'.outcome \in {"idle", "intervene"}
        /\ review_of[tick'.text] \/ finished_of[tick'.text]
        /\ generating_of[tick'.text, last_dialog_content'])
       => tick'.type # <<>>]_vars

\* C9 amended: the priority is review marker > busy > stuck > completion
\* phrase or question prompt > normal. A text with the review marker
\* triggers review_changes_completed whatever else it says; without the
\* review marker a busy text triggers nothing, even when it carries a
\* completion phrase or a question prompt; without either, a stuck text
\* triggers content_timeout_analysis, else a completion phrase or question
\* prompt triggers response_completed, else nothing
C9_ReviewBeatsBusyBeatsCompletion ==
    [][(/\ cycles' = cycles + 1
        /\ tick'.outcome \in {"idle", "intervene"})
       => LET text == tick'.text
              review == review_of[text]
              busy == generating_of[text, last_dialog_content']
          IN  /\ review => tick'.type = T_REVIEW
              /\ (~review /\ busy) => tick'.type = <<>> /\ tick'.outcome = "idle"
              /\ (~review /\ ~busy /\ tick'.stuck) => tick'.type = T_STUCK
              /\ (~review /\ ~busy /\ ~tick'.stuck /\ finished_of[text])
                     => tick'.type = T_FINISHED
              /\ (~review /\ ~busy /\ ~tick'.stuck /\ ~finished_of[text])
                     => tick'.type = <<>>]_vars

\* a text with a completion phrase and busy wording, without the review
\* marker, was classified and the tick stayed idle
C9_Witness ==
    /\ tick.outcome = "idle"
    /\ finished_of[tick.text]
    /\ ~review_of[tick.text]
    /\ generating_of[tick.text, last_dialog_content]
    /\ cursor_is_processing

\* C10: is_content_stuck on a valid text equal to the dialog content last
\* recorded answers True exactly when the time since the last change
\* exceeds 60 s for a text with a busy marker and 30 s for a text without
\* one (False at 29 s and True at 31 s; False at 59 s and True at 61 s);
\* it answers False for an invalid text
C10_StuckThresholds ==
    pc = "returned" =>
        LET text == tick.text
            duration == now - StartTime
            busy == generating_of[text, last_dialog_content]
        IN  /\ ~valid_of[text] => ~tick.stuck
            /\ (valid_of[text] /\ text = last_dialog_content)
                  => (tick.stuck <=> duration > (IF busy THEN 60 ELSE 30))

\* C11: on a tick that the guard lets through and whose valid text carries
\* a busy marker and is longer than the valid, busy text of the tick
\* before, the stuck signal is false and last_content_change_time is reset
\* to the time of the tick
C11_GrowthResetsStability ==
    [][(/\ cycles' = cycles + 1
        /\ valid_of[tick.text] /\ valid_of[tick'.text]
        /\ generating_of[tick.text, tick.text]
        /\ generating_of[tick'.text, tick'.text]
        /\ Len(tick'.text) > Len(tick.text)
        /\ tick.check = 0 /\ tick'.check = 0)
       => /\ ~tick'.stuck
          /\ last_content_change_time' = now]_vars

\* C12: last_instruction_time changes only in the step in which the
\* executor returns and reports success
C12_InstructionTimeOnlyOnSuccess ==
    [][last_instruction_time' # last_instruction_time
          => (tick'.sent = tick.sent + 1 /\ tick'.ok)]_vars

\* C13: whatever fails inside a tick (the capture or the extraction
\* raising, no capture, the generator or the executor failing, an exception
\* inside the dispatch), the call of monitoring_cycle returns to the loop,
\* which goes to sleep and then to its head again; the loop ends, and
\* is_running becomes false, only after a stop was requested
C13_NoFailureEndsTheLoop ==
    [][/\ pc' = "stopped" => (should_stop /\ pc \in {"loop", "stopped"})
       /\ ~is_running' => (should_stop /\ pc' = "stopped")
       /\ (pc \in {"loop", "generate", "type", "fallback"} /\ pc' # pc)
             => \/ pc' = "sleep"
                \/ pc' \in {"generate", "type", "fallback"}
                \/ pc' = "stopped"
       /\ pc = "sleep" => pc' \in {"sleep", "loop"}
       /\ (cycles' = cycles + 1 /\ tick'.outcome \in {"raised", "no_capture"})
             => pc' = "sleep"
       /\ (pc \in {"type", "fallback"} /\ pc' = "sleep") => ~is_processing_message']_vars

\* after a tick in which the capture raised the loop has slept and is at
\* its head again, still running
C13_Witness ==
    /\ tick.outcome = "raised"
    /\ pc = "loop"
    /\ now > StartTime
    /\ is_running
    /\ ~should_stop

\* C14: when the generator returns (its own fallback text when the call of
\* the language model raised), the instruction handed to the executor in
\* the same tick is the fixed text of lines 659-661 if the generator's text
\* was empty or shorter than 10 characters after stripping, and it is never
\* empty or short; when the dispatch raises, the fixed text of the except
\* clause is handed to the executor; in both cases the executor is called
\* before the tick ends
C14_FallbackInstructionSubstituted ==
    [][/\ (pc = "generate" /\ pc' # "generate")
             => /\ pc' \in {"type", "fallback"}
                /\ now' = now /\ cycles' = cycles
                /\ pc' = "type"
                      => /\ Len(Strip(pm_instruction')) >= min_instruction_length
                         /\ (\/ tick'.generated = <<>>
                             \/ Len(Strip(tick'.generated)) < min_instruction_length)
                               => pm_instruction' =
                                     EMPTY_FALLBACK_PREFIX \o intervention_type \o <<")">>
                         /\ tick'.generated \in {GEN_FALLBACK, GEN_FALLBACK_REVIEW}
                               => pm_instruction' = tick'.generated
                /\ pc' = "fallback" => pm_instruction' = EXCEPT_FALLBACK
       /\ (pc \in {"type", "fallback"} /\ pc' # pc)
             => \/ pc' = "sleep" /\ tick'.sent = tick.sent + 1 /\ cycles' = cycles
                \/ pc = "type" /\ pc' = "fallback" /\ pm_instruction' = EXCEPT_FALLBACK]_vars

\* the generator returned a two-character text and the executor typed the
\* fixed text in its place
C14_Witness ==
    /\ pc = "sleep"
    /\ tick.generated = G_SHORT
    /\ tick.sent = 1 /\ tick.ok
    /\ last_instruction_sent = EMPTY_FALLBACK_PREFIX \o tick.type \o <<")">>

\* C15: in the step in which the executor returns failure the tick ends
\* without a further executor call, the lock is released, and
\* last_instruction_time, last_instruction_sent and last_progress_time keep
\* their values
C15_ExecutorFailureChangesNothing ==
    [][(tick'.sent = tick.sent + 1 /\ ~tick'.ok)
          => /\ pc' = "sleep"
             /\ tick'.sent = 1
             /\ ~is_processing_message'
             /\ UNCHANGED <<last_instruction_time, last_instruction_sent,
                            last_progress_time>>]_vars

\* C16: when a dispatch ends with the executor reporting failure, the hash
\* of the tick's text is not in processed_message_hashes, and a tick that
\* shows the same text next is not suppressed by the check of the processed
\* hashes (check 4 of is_duplicate_processing)
C16_FailedDispatchKeepsContent ==
    [][/\ (tick'.sent = tick.sent + 1 /\ ~tick'.ok)
             => hash_of[tick'.text] \notin processed_message_hashes'
       /\ (/\ cycles' = cycles + 1
           /\ tick.sent = 1 /\ ~tick.ok
           /\ tick'.text = tick.text)
             => tick'.check # 4]_vars

\* C17: on every tick whose valid text carries the review marker and is
\* not suppressed by the guard, the tick begins one dispatch of type
\* review_changes_completed; when a dispatch of that type ends with the
\* executor reporting success, it was the only executor call of the tick
\* and last_instruction_time is the time of the dispatch
C17_ReviewAlwaysDispatched ==
    [][/\ (/\ cycles' = cycles + 1
           /\ valid_of[tick'.text] /\ review_of[tick'.text]
           /\ tick'.check = 0)
             => /\ tick'.outcome = "intervene"
                /\ tick'.type = T_REVIEW
                /\ pc' = "generate"
       /\ (tick.type = T_REVIEW /\ tick'.sent = tick.sent + 1 /\ tick'.ok)
             => /\ tick'.sent = 1
                /\ last_instruction_time' = now]_vars

\* C17 amended: the above holds for the texts that are not substantially the
\* same as the dialog content last recorded. A text with the review marker
\* that is substantially the same as last_dialog_content is not classified:
\* it is handed to handle_repeated_content without a dispatch while
\* last_content_change_time is at most 60 s old, and dispatched with type
\* timeout_intervention when it is older
C17_ReviewDispatchedUnlessRepeated ==
    [][/\ (/\ cycles' = cycles + 1
           /\ valid_of[tick'.text] /\ review_of[tick'.text]
           /\ tick'.check = 0)
             => IF ~same_of[tick'.text, last_dialog_content]
                THEN /\ tick'.outcome = "intervene"
                     /\ tick'.type = T_REVIEW
                     /\ pc' = "generate"
                ELSE IF now - last_content_change_time > same_content_timeout
                THEN /\ tick'.outcome = "timeout"
                     /\ tick'.type = T_TIMEOUT
                     /\ pc' = "generate"
                ELSE /\ tick'.outcome \in {"repeated", "paused"}
                     /\ pc' = "sleep"
       /\ (tick.type = T_REVIEW /\ tick'.sent = tick.sent + 1 /\ tick'.ok)
             => /\ tick'.sent = 1
                /\ last_instruction_time' = now]_vars

\* a text with the review marker and busy wording was dispatched with type
\* review_changes_completed and the executor reported success
C17_Witness ==
    /\ pc = "sleep"
    /\ tick.type = T_REVIEW
    /\ review_of[tick.text]
    /\ generating_of[tick.text, tick.text]
    /\ tick.sent = 1 /\ tick.ok
    /\ last_instruction_time = now

\* C18: on a tick that the guard lets through and whose valid text has no
\* busy marker, has not been dispatched before, is identical to the dialog
\* content last recorded and has been so for more than 30 s, the stuck
\* signal is true and the tick begins a dispatch of type
\* content_timeout_analysis
C18_IdenticalTextClassifiedStuck ==
    [][(/\ cycles' = cycles + 1
        /\ valid_of[tick'.text]
        /\ ~generating_of[tick'.text, tick'.text]
        /\ tick'.text = last_dialog_content
        /\ fired[tick'.text] = 0
        /\ now - last_content_change_time > 30
        /\ tick'.check = 0)
       => /\ tick'.stuck
          /\ tick'.type = T_STUCK
          /\ pc' = "generate"]_vars

Suppressing == valid_of[tick.text] /\ tick.check # 0

\* C20: if no stop is requested and from some point on every tick shows a
\* valid text that the guard suppresses, a forced intervention begins again
\* and again; once an instruction has been sent, it begins on a suppressed
\* tick exactly when more than max_stuck_time has passed since
\* last_instruction_time, the time of the last intervention that succeeded
C20_ForcedAfterLastIntervention ==
    /\ (<>[]Suppressing /\ []~should_stop)
          => []<>(tick.outcome = "forced" /\ pc = "generate")
    /\ [][(/\ cycles' = cycles + 1
           /\ valid_of[tick'.text] /\ tick'.check # 0
           /\ last_instruction_sent # <<>>)
            => (tick'.outcome = "forced"
                   <=> now - last_instruction_time > max_stuck_time)]_vars

\* C20 amended: if no stop is requested and from some point on every tick
\* shows a valid text that the guard suppresses, a forced intervention
\* begins again and again; it begins on a suppressed tick exactly when
\* more than max_stuck_time has passed since last_progress_time, which is
\* the construction, the last instruction typed with success on the main
\* path, or the last firing of the valve, whichever is latest
C20_ForcedAgainAndAgain ==
    /\ (<>[]Suppressing /\ []~should_stop)
          => []<>(tick.outcome = "forced" /\ pc = "generate")
    /\ [][(cycles' = cycles + 1 /\ valid_of[tick'.text] /\ tick'.check # 0)
            => /\ tick'.outcome = "forced" <=> now - last_progress_time > max_stuck_time
               /\ tick'.outcome = "forced" => pc' = "generate" /\ last_progress_time' = now]_vars

\* the valve has fired on a tick after the clock's origin was moved, that
\* is more than FrameBase - StartTime seconds after the construction, on a
\* text that an earlier dispatch had marked processed, and its instruction
\* was typed
C20_Witness ==
    /\ tick.outcome = "forced"
    /\ tick.check = 4
    /\ now = FrameBase
    /\ pc = "sleep"
    /\ tick.sent = 1 /\ tick.ok

\* C21: once should_stop is set no tick starts; the loop is left, and
\* is_running cleared, only at the loop head with should_stop set; a
\* dispatch in progress when should_stop is set goes on through the
\* generator and the executor and ends with the lock released; the signal
\* handler changes nothing but should_stop; and once should_stop is set the
\* loop reaches its end
C21_StopOnlyAtLoopHead ==
    /\ [][/\ should_stop => cycles' # cycles + 1
          /\ pc' = "stopped" /\ pc # "stopped"
                => /\ pc = "loop" /\ should_stop
                   /\ ~is_running' /\ ~is_processing_message'
                   /\ UNCHANGED <<sup, frame, tick>>
          /\ (should_stop /\ Dispatching /\ pc' # pc)
                => \/ pc' \in {"type", "fallback"}
                   \/ pc' = "sleep" /\ ~is_processing_message'
                                    /\ tick'.sent = tick.sent + 1
          /\ (should_stop /\ pc = "sleep") => pc' \in {"sleep", "loop"}
          /\ should_stop' # should_stop
                => should_stop' /\ UNCHANGED <<pc, sup, frame, tick, cycles, is_running>>]_vars
    /\ (should_stop ~> pc = "stopped")

\* the stop signal is set while the executor is at work for a dispatch
C21_Witness ==
    /\ should_stop
    /\ pc = "type"
    /\ is_processing_message
    /\ is_running

\* C22: a tick begins only at the loop head, with no dispatch in progress,
\* the lock free and the frame of the last dispatch gone; the loop head is
\* reached only from the sleep, which takes time; a dispatch begins only
\* inside a tick that begins at the loop head; while a dispatch is in
\* progress no tick begins; the pause of 30 s is taken inside the tick,
\* before its sleep; each tick has at most one executor call returned
C22_TicksNeverOverlap ==
    [][/\ cycles' = cycles + 1
             => /\ pc = "loop"
                /\ ~Dispatching /\ ~is_processing_message
                /\ frame = <<<<>>, <<>>, <<>>>>
       /\ (pc' = "loop" /\ pc # "loop")
             => /\ pc = "sleep"
                /\ now' > now
                /\ UNCHANGED <<sup, frame, tick>>
       /\ (pc' = "generate" /\ pc # "generate")
             => pc = "loop" /\ cycles' = cycles + 1
       /\ Dispatching => cycles' # cycles + 1 /\ now' = now
       /\ (cycles' = cycles + 1 /\ tick'.outcome = "paused")
             => /\ now' = now + pause_duration
                /\ pc' = "sleep"
                /\ repeated_content_count' = 0
       /\ tick'.sent <= 1]_vars

\* the loop is at its head again after a tick that paused for 30 s and the
\* sleep that followed it
C22_Witness ==
    /\ tick.outcome = "paused"
    /\ pc = "loop"
    /\ now > StartTime + pause_duration

\* C23: on every tick whose text is valid and differs from
\* last_dialog_content, also when the guard suppresses the tick (lock,
\* cooldown, processed hash, repetition limit, echo), the text becomes
\* last_dialog_content, it is the last entry of dialog_history, and
\* last_content_change_time is the time of the tick
C23_ValidSnapshotAlwaysRecorded ==
    [][(/\ cycles' = cycles + 1
        /\ valid_of[tick'.text]
        /\ tick'.text # last_dialog_content
        /\ tick'.check # 0 /\ tick'.outcome = "suppressed")
       => /\ last_dialog_content' = tick'.text
          /\ dialog_history' # <<>>
          /\ dialog_history'[Len(dialog_history')].content = tick'.text
          /\ last_content_change_time' = now]_vars

(* ---------------------------------------------------------------------- *)
(* HistorySpec: the recording of changed content, lines 558-579 of         *)
(* monitoring_cycle, applied again and again to texts that reach it; it    *)
(* starts after any number of recordings up to MaxPrefix and goes on for   *)
(* MaxMore more, so that both lists overflow                               *)
(* ---------------------------------------------------------------------- *)
\* the texts recorded: a user request, a text without signal, a busy text
HistoryTexts == {S_ECHO, S_THINK, S_GEN}

\* the supervisor after construction
FreshSupervisor ==
    [is_processing_message |-> FALSE,
     last_instruction_time |-> 0,
     processed_message_hashes |-> {},
     last_processed_content_hash |-> None,
     content_repetition_count |-> <<>>,
     last_instruction_sent |-> <<>>,
     last_dialog_content |-> <<>>,
     dialog_history |-> <<>>,
     conversation_turns |-> <<>>,
     current_turn |-> NoTurn,
     cursor_is_processing |-> FALSE,
     last_content_change_time |-> StartTime,
     last_progress_time |-> StartTime,
     repeated_content_count |-> 0,
     last_repeated_content_time |-> NoTime]

\* monitoring_cycle lines 558-579: the text is recorded, then classified
RecordedContent(s, text, t) ==
    AfterDetection(update_dialog_history(s, text, t), text, t)

\* the supervisor after n recordings, one per second, of a user request
\* and of a text without signal in turn
RECURSIVE Replay(_)
Replay(n) ==
    IF n = 0 THEN FreshSupervisor
    ELSE RecordedContent(Replay(n - 1), IF n % 2 = 1 THEN S_ECHO ELSE S_THINK,
                         StartTime + n - 1)

HistoryInit ==
    \E n \in 0..MaxPrefix :
        LET s == Replay(n)
        IN  /\ project_planner = NoPlanner
            /\ screen = HistoryTexts
            /\ now = StartTime + n
            /\ pc = "loop"
            /\ should_stop = FALSE
            /\ is_running = TRUE
            /\ is_processing_message = s.is_processing_message
            /\ last_instruction_time = s.last_instruction_time
            /\ processed_message_hashes = s.processed_message_hashes
            /\ last_processed_content_hash = s.last_processed_content_hash
            /\ content_repetition_count = s.content_repetition_count
            /\ last_instruction_sent = s.last_instruction_sent
            /\ last_dialog_content = s.last_dialog_content
            /\ dialog_history = s.dialog_history
            /\ conversation_turns = s.conversation_turns
            /\ current_turn = s.current_turn
            /\ cursor_is_processing = s.cursor_is_processing
            /\ last_content_change_time = s.last_content_change_time
            /\ last_progress_time = s.last_progress_time
            /\ repeated_content_count = s.repeated_content_count
            /\ last_repeated_content_time = s.last_repeated_content_time
            /\ extracted_text = <<>>
            /\ intervention_type = <<>>
            /\ pm_instruction = <<>>
            /\ tick = NoTick
            /\ fired = [t \in Snapshots |-> 0]
            /\ cycles = 0

\* one more text is recorded, a second later
RecordContent(text) ==
    /\ pc = "loop"
    /\ cycles < MaxMore
    /\ text \in screen
    /\ Becomes(RecordedContent(Self, text, now))
    /\ now' = now + 1
    /\ cycles' = cycles + 1
    /\ tick' = [NoTick EXCEPT !.text = text, !.outcome = "called"]
    /\ UNCHANGED <<project_planner, screen, pc, should_stop, is_running, frame, fired>>

HistoryNext == \E text \in HistoryTexts : RecordContent(text)

HistorySpec == HistoryInit /\ [][HistoryNext]_vars

(* ---------------------------------------------------------------------- *)
(* GuardSpec: is_duplicate_processing called again and again on valid      *)
(* texts, by a supervisor whose content_repetition_count already holds     *)
(* nearly repetition_limit texts                                           *)
(* ---------------------------------------------------------------------- *)
\* the text "x" * i, a text met earlier
FillerText(i) == [j \in 1..i |-> "x"]

\* content_repetition_count after n different texts were counted once
CountedTexts(n) == [i \in 1..n |-> [text |-> FillerText(i), count |-> 1]]

\* the valid texts
ValidSnapshots == {text \in Snapshots : valid_of[text]}

\* the supervisor is new, or has dispatched the text processed and sent an
\* instruction for it while last_dialog_content was the text last
GuardInit ==
    /\ project_planner = NoPlanner
    /\ screen = ValidSnapshots
    /\ now = StartTime
    /\ pc = "loop"
    /\ should_stop = FALSE
    /\ is_running = TRUE
    /\ is_processing_message = FALSE
    /\ last_instruction_time = 0
    /\ \E n \in (repetition_limit - NearFull)..repetition_limit :
          content_repetition_count = CountedTexts(n)
    /\ last_dialog_content \in ValidSnapshots
    /\ \/ /\ processed_message_hashes = {}
          /\ last_processed_content_hash = None
          /\ last_instruction_sent = <<>>
       \/ /\ \E processed \in ValidSnapshots :
                /\ processed_message_hashes = {hash_of[processed]}
                /\ last_processed_content_hash = hash_of[processed]
          /\ last_instruction_sent \in {G_LONG, GEN_FALLBACK}
    /\ dialog_history = <<>>
    /\ conversation_turns = <<>>
    /\ current_turn = NoTurn
    /\ cursor_is_processing = FALSE
    /\ last_content_change_time = StartTime
    /\ last_progress_time = StartTime
    /\ repeated_content_count = 0
    /\ last_repeated_content_time = NoTime
    /\ extracted_text = <<>>
    /\ intervention_type = <<>>
    /\ pm_instruction = <<>>
    /\ tick = NoTick
    /\ fired = [t \in Snapshots |-> 0]
    /\ cycles = 0

\* one call is_duplicate_processing(text); the number of the check that
\* answered goes to tick.check
GuardCall(text) ==
    /\ pc = "loop"
    /\ cycles < MaxCalls
    /\ text \in screen
    /\ Becomes(AfterDuplicateCheck(Self, text, now))
    /\ tick' = [NoTick EXCEPT !.text = text, !.outcome = "called",
                              !.check = DuplicateCheck(Self, text, now)]
    /\ cycles' = cycles + 1
    /\ UNCHANGED <<project_planner, screen, now, pc, should_stop, is_running, frame, fired>>

GuardNext == \E text \in ValidSnapshots : GuardCall(text)

GuardSpec == GuardInit /\ [][GuardNext]_vars

(* ---------------------------------------------------------------------- *)
(* MarkSpec: mark_content_as_processed and is_duplicate_processing called  *)
(* on valid texts by a supervisor whose processed_message_hashes already   *)
(* holds nearly max_processed_hashes hashes                                *)
(* ---------------------------------------------------------------------- *)
\* processed_message_hashes after n texts met earlier were dispatched
FillerHashes(n) == {calculate_content_hash(FillerText(i)) : i \in 1..n}

\* the texts given to is_duplicate_processing: those that are marked, and
\* one that differs from one of them in letter case and spacing
GuardedTexts == ValidSnapshots \cup {S_REVIEWCASE}

MarkInit ==
    /\ project_planner = NoPlanner
    /\ screen = GuardedTexts
    /\ now = StartTime
    /\ pc = "loop"
    /\ should_stop = FALSE
    /\ is_running = TRUE
    /\ is_processing_message = FALSE
    /\ last_instruction_time = 0
    /\ \E n \in (max_processed_hashes - NearFull)..max_processed_hashes :
          /\ processed_message_hashes = FillerHashes(n)
          /\ last_processed_content_hash = calculate_content_hash(FillerText(n))
    /\ content_repetition_count = <<>>
    /\ last_instruction_sent = <<>>
    /\ last_dialog_content \in ValidSnapshots
    /\ dialog_history = <<>>
    /\ conversation_turns = <<>>
    /\ current_turn = NoTurn
    /\ cursor_is_processing = FALSE
    /\ last_content_change_time = StartTime
    /\ last_progress_time = StartTime
    /\ repeated_content_count = 0
    /\ last_repeated_content_time = NoTime
    /\ extracted_text = <<>>
    /\ intervention_type = <<>>
    /\ pm_instruction = <<>>
    /\ tick = NoTick
    /\ fired = [t \in Snapshots |-> 0]
    /\ cycles = 0

\* one call mark_content_as_processed(text); fired tells the texts marked
\* since the set was last cut
MarkCall(text) ==
    /\ pc = "loop"
    /\ cycles < MaxCalls
    /\ text \in screen
    /\ \E kept \in MarkedHashes(processed_message_hashes, text) :
          Becomes(mark_content_as_processed(Self, text, kept))
    /\ tick' = [NoTick EXCEPT !.text = text, !.outcome = "marked"]
    /\ fired' = [x \in Snapshots |->
                   IF Cardinality(processed_message_hashes \cup {hash_of[text]})
                         > max_processed_hashes
                   THEN 0
                   ELSE IF x = text THEN 1 ELSE fired[x]]
    /\ cycles' = cycles + 1
    /\ UNCHANGED <<project_planner, screen, now, pc, should_stop, is_running, frame>>

MarkNext ==
    \/ \E text \in ValidSnapshots : MarkCall(text)
    \/ \E text \in GuardedTexts : GuardCall(text)

MarkSpec == MarkInit /\ [][MarkNext]_vars

\* C24: dialog_history changes only on a tick whose text differs from
\* last_dialog_content without being shorter than it and without being
\* more than 50 characters longer while carrying a busy marker
C24_HistoryAppendedAtComparableLength ==
    [][dialog_history' # dialog_history
          => /\ cycles' = cycles + 1
             /\ tick'.text # last_dialog_content
             /\ Len(tick'.text) >= Len(last_dialog_content)
             /\ ~(/\ Len(tick'.text) > Len(last_dialog_content) + growth_margin
                  /\ generating_of[tick'.text, last_dialog_content])]_vars

\* C24 amended: dialog_history changes only inside a tick, and exactly on
\* the ticks whose valid text passes the guard and is not substantially
\* the same as last_dialog_content; such a text differs from
\* last_dialog_content and is appended as the last entry, with the time of
\* the tick, whether it is longer, shorter or of the same length, and
\* becomes last_dialog_content; on every other tick dialog_history and
\* last_dialog_content are unchanged
C24_HistoryAppendedOnAnyDifference ==
    [][/\ cycles' = cycles => UNCHANGED <<dialog_history, last_dialog_content>>
       /\ cycles' = cycles + 1
             => LET text == tick'.text
                    recorded == /\ valid_of[text]
                                /\ tick'.check = 0
                                /\ ~same_of[text, last_dialog_content]
                IN  /\ recorded
                       => /\ text # last_dialog_content
                          /\ Len(dialog_history) < history_limit
                                => dialog_history' =
                                      Append(dialog_history,
                                             [timestamp |-> now, content |-> text])
                          /\ last_dialog_content' = text
                          /\ last_content_change_time' = now
                    /\ ~recorded
                       => UNCHANGED <<dialog_history, last_dialog_content>>]_vars

\* a text shorter than the recorded one was appended to dialog_history
C24_Witness ==
    /\ Len(dialog_history) = 2
    /\ Len(dialog_history[2].content) < Len(dialog_history[1].content)
    /\ last_dialog_content = dialog_history[2].content
    /\ tick.text = last_dialog_content

C26_ConsecutiveRepeatsCounted ==
    [][/\ repeated_content_count' # repeated_content_count
          => /\ cycles' = cycles + 1
             /\ tick'.outcome \in {"repeated", "paused"}
             /\ tick'.check = 0
             /\ same_of[tick'.text, last_dialog_content]
             /\ now - last_content_change_time <= same_content_timeout
       /\ tick'.outcome = "repeated" /\ cycles' = cycles + 1
          => repeated_content_count' = repeated_content_count + 1
       /\ tick'.outcome = "paused" /\ cycles' = cycles + 1
          => /\ repeated_content_count + 1 = repeat_pause_threshold
             /\ now' = now + pause_duration
             /\ repeated_content_count' = 0
       /\ last_dialog_content' # last_dialog_content
          => repeated_content_count' = 0]_vars

\* C26 amended: the count is of all repeats since the last pause, not of
\* consecutive ones: it grows by one on every tick that is not suppressed
\* and whose text is substantially the same as last_dialog_content for at
\* most same_content_timeout, the fifth such tick pauses the loop for
\* pause_duration and puts the count back at 0, and every other step, a
\* tick recording a changed content included, leaves the count as it is
C26_RepeatsCountedAcrossChanges ==
    [][/\ repeated_content_count' # repeated_content_count
          => /\ cycles' = cycles + 1
             /\ tick'.outcome \in {"repeated", "paused"}
             /\ tick'.check = 0
             /\ same_of[tick'.text, last_dialog_content]
             /\ now - last_content_change_time <= same_content_timeout
       /\ tick'.outcome = "repeated" /\ cycles' = cycles + 1
          => repeated_content_count' = repeated_content_count + 1
       /\ tick'.outcome = "paused" /\ cycles' = cycles + 1
          => /\ repeated_content_count + 1 = repeat_pause_threshold
             /\ now' = now + pause_duration
             /\ repeated_content_count' = 0
       /\ last_dialog_content' # last_dialog_content
          => UNCHANGED repeated_content_count]_vars

\* a fourth repeat is counted although the content changed after the first
\* repeats
C26_Witness ==
    /\ tick.outcome = "repeated"
    /\ repeated_content_count = 4
    /\ Len(dialog_history) = 2
    /\ dialog_history[2].timestamp > last_repeated_content_time
    /\ dialog_history[2].content = last_dialog_content
    /\ ~same_of[dialog_history[2].content, dialog_history[1].content]

\* C27: on a tick that records its text, a turn is opened exactly when the
\* text is a user request carrying no busy signal: current_turn becomes an
\* active turn for the text with no responses, the turn it replaces going
\* to the end of conversation_turns; a user request carrying a busy signal,
\* and a text that is no user request, open no turn
C27_TurnOpenedOnUserRequestNotBusy ==
    [][(cycles' = cycles + 1 /\ dialog_history' # dialog_history)
          => LET text == tick'.text
                 opened == [start_time |-> now, user_request |-> text,
                            cursor_responses |-> <<>>, status |-> "active"]
             IN  IF user_input_of[text] /\ ~generating_of[text, text]
                 THEN /\ current_turn' = opened
                      /\ conversation_turns' =
                            IF current_turn # NoTurn
                            THEN Append(conversation_turns, current_turn)
                            ELSE conversation_turns
                 ELSE /\ current_turn' # opened
                      /\ UNCHANGED conversation_turns]_vars

\* C28: a tick that records its text without opening a turn appends the
\* text, with the time of the tick, at the end of the responses of the
\* active turn, and a completion phrase in the text makes the turn
\* completed with that time as end_time; a completed turn is left as it is
\* by every step that does not replace it by a new turn; and a step that
\* records no text changes no turn
C28_ResponsesAppendedWhileActive ==
    [][IF cycles' = cycles + 1 /\ dialog_history' # dialog_history
       THEN LET text == tick'.text
                opens == user_input_of[text] /\ ~cursor_is_processing
            IN  /\ (current_turn # NoTurn /\ current_turn.status = "active" /\ ~opens)
                      => /\ current_turn'.cursor_responses =
                               Append(current_turn.cursor_responses,
                                      [timestamp |-> now, content |-> text])
                         /\ current_turn'.user_request = current_turn.user_request
                         /\ current_turn'.start_time = current_turn.start_time
                         /\ IF completion_of[text]
                            THEN /\ current_turn'.status = "completed"
                                 /\ current_turn'.end_time = now
                            ELSE current_turn'.status = "active"
                /\ (current_turn # NoTurn /\ current_turn.status = "completed" /\ ~opens)
                      => UNCHANGED <<current_turn, conversation_turns>>
                /\ (current_turn = NoTurn /\ ~opens)
                      => UNCHANGED <<current_turn, conversation_turns>>
       ELSE UNCHANGED <<current_turn, conversation_turns>>]_vars

\* a turn was completed by its first response, and the text recorded after
\* that is not among its responses
C28_Witness ==
    /\ current_turn # NoTurn
    /\ current_turn.status = "completed"
    /\ Len(current_turn.cursor_responses) = 1
    /\ current_turn.end_time = current_turn.cursor_responses[1].timestamp
    /\ dialog_history # <<>>
    /\ dialog_history[Len(dialog_history)].timestamp > current_turn.end_time

\* C29: get_latest_conversation_context returns the placeholder for an
\* empty history when there is neither a retained turn nor a current turn,
\* and otherwise the rendering of the most recently completed turn, if
\* there is one, followed by the rendering of current_turn if it is active
C29_ContextRendersCompletedAndActive ==
    LET context == get_latest_conversation_context(Self)
        turns == conversation_turns
                    \o (IF current_turn # NoTurn THEN <<current_turn>> ELSE <<>>)
        completed == {i \in 1..Len(turns) : turns[i].status = "completed"}
        latest == CHOOSE i \in completed : \A j \in completed : j <= i
    IN  IF turns = <<>> THEN context.status = "no_history"
        ELSE /\ context.status = "rendered"
             /\ context.lines =
                   (IF completed # {} THEN PreviousLines(turns[latest]) ELSE <<>>)
                   \o (IF current_turn # NoTurn /\ current_turn.status = "active"
                       THEN CurrentLines(current_turn) ELSE <<>>)

\* C30: dialog_history never holds more than history_limit entries and
\* conversation_turns never more than turns_limit; a recording leaves each
\* list as it is or puts one element at its end, and when the list then
\* exceeds its limit what is kept is its last history_keep entries, or its
\* last turns_keep turns, in the order they had
C30_HistoryAndTurnsBounded ==
    /\ [](/\ Len(dialog_history) <= history_limit
          /\ Len(conversation_turns) <= turns_limit)
    /\ [][/\ \/ UNCHANGED dialog_history
             \/ LET all == Append(dialog_history,
                                  [timestamp |-> now, content |-> tick'.text])
                IN  IF Len(all) <= history_limit
                    THEN dialog_history' = all
                    ELSE /\ Len(dialog_history') = history_keep
                         /\ \A i \in 1..history_keep :
                               dialog_history'[i] = all[Len(all) - history_keep + i]
          /\ \/ UNCHANGED conversation_turns
             \/ LET all == Append(conversation_turns, current_turn)
                IN  /\ current_turn # NoTurn
                    /\ IF Len(all) <= turns_limit
                       THEN conversation_turns' = all
                       ELSE /\ Len(conversation_turns') = turns_keep
                            /\ \A i \in 1..turns_keep :
                                  conversation_turns'[i] = all[Len(all) - turns_keep + i]]_vars

\* both lists have overflowed: the retained turns were cut to turns_keep by
\* the recording just made and the oldest entries of the history are gone
C30_Witness ==
    /\ cycles > 0
    /\ Len(conversation_turns) = turns_keep
    /\ conversation_turns[1].start_time > StartTime
    /\ current_turn.start_time = now - 1
    /\ Len(dialog_history) > history_keep
    /\ dialog_history[1].timestamp > StartTime

\* C31: content_repetition_count never holds more than repetition_limit + 1
\* texts
C31_RepetitionCounterCapped ==
    Len(content_repetition_count) <= repetition_limit + 1

\* C32: processed_message_hashes never holds more than max_processed_hashes
\* hashes; a call of mark_content_as_processed adds the hash of its text,
\* and when that makes more than max_processed_hashes, what is left is half
\* of max_processed_hashes hashes, all taken from the set with the hash added
C32_ProcessedHashesBounded ==
    /\ [](Cardinality(processed_message_hashes) <= max_processed_hashes)
    /\ [][tick'.outcome = "marked" /\ cycles' = cycles + 1
             => LET added == processed_message_hashes \cup {hash_of[tick'.text]}
                IN  IF Cardinality(added) > max_processed_hashes
                    THEN /\ Cardinality(processed_message_hashes')
                               = max_processed_hashes \div 2
                         /\ processed_message_hashes' \subseteq added
                    ELSE processed_message_hashes' = added]_vars

\* a call of mark_content_as_processed has just cut the set
C32_Witness ==
    /\ tick.outcome = "marked"
    /\ Cardinality(processed_message_hashes) = max_processed_hashes \div 2
    /\ last_processed_content_hash = hash_of[tick.text]

\* C33: two texts have the same hash exactly when they are the same after
\* the whitespace is taken out and the letters are put in lower case; and a
\* call of is_duplicate_processing that gets to the hash check is answered
\* by it exactly when processed_message_hashes holds the hash of a text
\* that is the same as the text of the call in that sense
C33_HashOfNormalisedText ==
    /\ [](\A a \in Texts, b \in Texts :
             hash_of[a] = hash_of[b] <=> normalized_text_of[a] = normalized_text_of[b])
    /\ [][tick'.outcome = "called" /\ cycles' = cycles + 1
             => /\ tick'.check \notin {1, 2}
                /\ tick'.check = 4
                      <=> \E text \in Texts :
                             /\ hash_of[text] \in processed_message_hashes
                             /\ normalized_text_of[text]
                                   = normalized_text_of[tick'.text]]_vars

\* "Review Changes" was marked as processed and "REVIEW  changes" is
\* answered by the hash check
C33_Witness ==
    /\ tick.outcome = "called"
    /\ tick.text = S_REVIEWCASE
    /\ tick.check = 4
    /\ last_processed_content_hash = hash_of[S_REVIEW]
    /\ S_REVIEW # S_REVIEWCASE

C35_SameContentTimesOutOrRepeats ==
    [][cycles' = cycles + 1
          => /\ (/\ valid_of[tick'.text]
                 /\ tick'.check = 0
                 /\ tick'.outcome \notin {"raised", "no_capture"}
                 /\ same_of[tick'.text, last_dialog_content])
                   => /\ UNCHANGED <<dialog_history, conversation_turns, current_turn,
                                     last_dialog_content, last_content_change_time,
                                     cursor_is_processing, last_instruction_time,
                                     last_instruction_sent, last_progress_time>>
                      /\ ~tick'.stuck
                      /\ IF now - last_content_change_time > same_content_timeout
                         THEN /\ tick'.outcome = "timeout"
                              /\ tick'.type = T_TIMEOUT
                              /\ pc' = "generate"
                              /\ is_processing_message'
                         ELSE /\ tick'.outcome \in {"repeated", "paused"}
                              /\ tick'.type = <<>>
                              /\ pc' = "sleep"
                              /\ UNCHANGED <<is_processing_message,
                                             processed_message_hashes,
                                             last_processed_content_hash>>
                              /\ repeated_content_count' # repeated_content_count
             /\ tick'.outcome = "timeout"
                   => /\ tick'.check = 0
                      /\ same_of[tick'.text, last_dialog_content]
                      /\ now - last_content_change_time > same_content_timeout]_vars

\* a timeout intervention was dispatched and sent
C35_Witness ==
    /\ tick.outcome = "timeout"
    /\ tick.sent = 1
    /\ tick.ok
    /\ dialog_history[Len(dialog_history)].timestamp + same_content_timeout < now

DispatchInit ==
    /\ project_planner = NoPlanner
    /\ screen = ValidSnapshots
    /\ now = StartTime
    /\ pc = "loop"
    /\ should_stop = FALSE
    /\ is_running = TRUE
    /\ is_processing_message \in BOOLEAN
    /\ last_instruction_time = 0
    /\ content_repetition_count = <<>>
    /\ last_dialog_content = <<>>
    /\ \/ /\ processed_message_hashes = {}
          /\ last_processed_content_hash = None
          /\ last_instruction_sent = <<>>
       \/ /\ \E processed \in ValidSnapshots :
                /\ processed_message_hashes = {hash_of[processed]}
                /\ last_processed_content_hash = hash_of[processed]
          /\ last_instruction_sent \in {G_LONG, GEN_FALLBACK}
    /\ dialog_history = <<>>
    /\ conversation_turns = <<>>
    /\ current_turn = NoTurn
    /\ cursor_is_processing = FALSE
    /\ last_content_change_time = StartTime
    /\ last_progress_time = StartTime
    /\ repeated_content_count = 0
    /\ last_repeated_content_time = NoTime
    /\ extracted_text = <<>>
    /\ intervention_type = <<>>
    /\ pm_instruction = <<>>
    /\ tick = NoTick
    /\ fired = [t \in Snapshots |-> 0]
    /\ cycles = 0

\* one call handle_gpt_content_analysis_intervention(screenshot, text,
\* reason, type), up to its first await or to its return
InterventionCall(text, type) ==
    /\ pc \in {"loop", "sleep"}
    /\ cycles < MaxEntries
    /\ text \in screen
    /\ BeginDispatch(Self, text, type, "called", 0, FALSE, FALSE)

DispatchNext ==
    \/ \E text \in ValidSnapshots, type \in InterventionTypes : InterventionCall(text, type)
    \/ \E result \in {G_LONG, G_SHORT, <<>>, GEN_FALLBACK, GEN_FALLBACK_REVIEW} :
          GeneratorReturn(result)
    \/ \E success \in BOOLEAN : ExecutorReturn(success)
    \/ DispatchRaises
    \/ \E success \in BOOLEAN : FallbackReturn(success)

DispatchSpec == DispatchInit /\ [][DispatchNext]_vars

\* C37: a call of the dispatch made while is_processing_message is True
\* returns without calling the generator or the executor, leaves the
\* processed hashes, the hash last processed, the repetition counter, the
\* instruction last sent and its time unchanged, and leaves
\* is_processing_message True
C37_LockedEntryLeavesTheLock ==
    [][(/\ is_processing_message
        /\ pc \in {"loop", "sleep"}
        /\ cycles' = cycles + 1)
          => /\ pc' \notin {"generate", "type", "fallback"}
             /\ tick'.sent = 0
             /\ tick'.generated = <<>>
             /\ UNCHANGED <<processed_message_hashes, last_processed_content_hash,
                            content_repetition_count, last_instruction_sent,
                            last_instruction_time, last_progress_time, frame>>
             /\ is_processing_message']_vars

\* C38: after a call mark_content_as_processed(text) the hash of text is in
\* processed_message_hashes, also when the call cut the set down
C38_MarkedHashSurvivesTheCut ==
    [][(cycles' = cycles + 1 /\ tick'.outcome = "marked")
          => /\ hash_of[tick'.text] \in processed_message_hashes'
             /\ last_processed_content_hash' = hash_of[tick'.text]]_vars

\* C39: whenever the executor returns success for an instruction, be it
\* the generator's, the one substituted for an empty or short result, or
\* the fallback of the except clause, last_instruction_sent becomes that
\* instruction; and last_instruction_sent changes at no other step
C39_LastSentIsLastDelivered ==
    [][/\ (pc \in {"type", "fallback"} /\ pc' = "sleep" /\ tick'.ok)
            => last_instruction_sent' = pm_instruction
       /\ last_instruction_sent' # last_instruction_sent
            => /\ pc \in {"type", "fallback"}
               /\ pc' = "sleep"
               /\ tick'.ok]_vars

(* ---------------------------------------------------------------------- *)
(* PlannerSpec: the dispatch called by a supervisor that has loaded a      *)
(* project file and its saved progress                                     *)
(* ---------------------------------------------------------------------- *)
\* load_project_file and _load_progress: the first tasks are completed and
\* the next one is current
PlannerInit ==
    /\ \E done \in 0..Len(ProjectTasks) :
          project_planner = [current_task_index |-> done,
                             completed_tasks |-> 0..(done - 1)]
    /\ screen = ValidSnapshots
    /\ now = StartTime
    /\ pc = "loop"
    /\ should_stop = FALSE
    /\ is_running = TRUE
    /\ is_processing_message = FALSE
    /\ last_instruction_time = 0
    /\ processed_message_hashes = {}
    /\ last_processed_content_hash = None
    /\ content_repetition_count = <<>>
    /\ last_instruction_sent = <<>>
    /\ last_dialog_content = <<>>
    /\ dialog_history = <<>>
    /\ conversation_turns = <<>>
    /\ current_turn = NoTurn
    /\ cursor_is_processing = FALSE
    /\ last_content_change_time = StartTime
    /\ last_progress_time = StartTime
    /\ repeated_content_count = 0
    /\ last_repeated_content_time = NoTime
    /\ extracted_text = <<>>
    /\ intervention_type = <<>>
    /\ pm_instruction = <<>>
    /\ tick = NoTick
    /\ fired = [t \in Snapshots |-> 0]
    /\ cycles = 0

PlannerSpec == PlannerInit /\ [][DispatchNext]_vars

\* C40: a step of an intervention that changes the planner's progress
\* moves current_task_index forward by at most one task, never backwards,
\* and the tasks it adds to completed_tasks were current during that step
\* and detected complete in the reply
C40_PlannerAdvancesOneTask ==
    [][project_planner' # project_planner
          => /\ pc = "generate"
             /\ project_planner'.current_task_index >= project_planner.current_task_index
             /\ project_planner'.current_task_index
                   <= project_planner.current_task_index + 1
             /\ project_planner.completed_tasks \subseteq project_planner'.completed_tasks
             /\ \A id \in project_planner'.completed_tasks \ project_planner.completed_tasks :
                   /\ project_planner.current_task_index <= id
                   /\ id < project_planner'.current_task_index
                   /\ task_completed_of[extracted_text, id]]_vars

====
